---- MODULE Spec2Model ----
(***************************************************************************)
(* A model of the DNS covert-channel encoding engine: the channel classes  *)
(* under src/src/channels and src/Agent/src/channels.  A Python str is a   *)
(* sequence of one-character strings, a Python bytes object a sequence of  *)
(* integers in 0..255, and a call that raises is the record Err(kind).     *)
(***************************************************************************)
EXTENDS Integers, Sequences, FiniteSets, TLC

VARIABLES
    chan,      \* the constructed channel: its class name and its configuration
    data,      \* the payload last handed to encode / the values accessor
    encoded,   \* the representation returned by encode, or supplied to decode
    origin,    \* "none", "encode" (encoded = encode(data)) or "input"
    decoded,   \* the result of decode(encoded), or None
    values,    \* the result of the channel's values accessor on data, or None
    pc,        \* "new", "encoded", "decoded", "values"
    cli,       \* the command-line script: its name, the channel name it was given
    net        \* the transport: the queries built, the running send loop, its log

vars == <<chan, data, encoded, origin, decoded, values, pc, cli, net>>

None == [ok |-> FALSE, val |-> "none"]
Ok(v) == [ok |-> TRUE, val |-> v]
Err(kind) == [ok |-> FALSE, val |-> kind]

(***************************************************************************)
(* Python built-ins used by the channels.                                  *)
(***************************************************************************)
Lower == <<"a","b","c","d","e","f","g","h","i","j","k","l","m",
           "n","o","p","q","r","s","t","u","v","w","x","y","z">>
Upper == <<"A","B","C","D","E","F","G","H","I","J","K","L","M",
           "N","O","P","Q","R","S","T","U","V","W","X","Y","Z">>
Digits == <<"0","1","2","3","4","5","6","7","8","9">>

Range(s) == {s[i] : i \in DOMAIN s}
IndexOf(s, c) == CHOOSE i \in DOMAIN s : s[i] = c

IsLowerChar(c) == c \in Range(Lower)
IsUpperChar(c) == c \in Range(Upper)
\* str.isalpha() of one character
IsAlpha(c) == IsLowerChar(c) \/ IsUpperChar(c)
IsDigit(c) == c \in Range(Digits)
\* the characters str.strip() removes
IsSpace(c) == c \in {" ", "\t", "\n", "\r"}

UpperChar(c) == IF IsLowerChar(c) THEN Upper[IndexOf(Lower, c)] ELSE c
LowerChar(c) == IF IsUpperChar(c) THEN Lower[IndexOf(Upper, c)] ELSE c
\* str.upper() / str.lower()
StrUpper(s) == [i \in DOMAIN s |-> UpperChar(s[i])]
StrLower(s) == [i \in DOMAIN s |-> LowerChar(s[i])]

\* s[a:b] with 0-based Python bounds, 0 <= a
Slice(s, a, b) ==
    LET hi == IF b > Len(s) THEN Len(s) ELSE b
    IN  IF a >= hi THEN <<>> ELSE SubSeq(s, a + 1, hi)

\* s.startswith(p)
StartsWith(s, p) == Len(s) >= Len(p) /\ SubSeq(s, 1, Len(p)) = p

RECURSIVE Repeat(_, _)
\* c * n for a string c
Repeat(c, n) == IF n <= 0 THEN <<>> ELSE c \o Repeat(c, n - 1)

RECURSIVE RStrip(_, _)
\* s.rstrip(c) for one character c
RStrip(s, c) ==
    IF s # <<>> /\ s[Len(s)] = c THEN RStrip(SubSeq(s, 1, Len(s) - 1), c) ELSE s

RECURSIVE LStripSpace(_)
LStripSpace(s) == IF s # <<>> /\ IsSpace(s[1]) THEN LStripSpace(Tail(s)) ELSE s
RECURSIVE RStripSpace(_)
RStripSpace(s) ==
    IF s # <<>> /\ IsSpace(s[Len(s)])
    THEN RStripSpace(SubSeq(s, 1, Len(s) - 1)) ELSE s
\* s.strip()
Strip(s) == RStripSpace(LStripSpace(s))

RECURSIVE SplitFrom(_, _, _)
SplitFrom(s, sep, cur) ==
    IF s = <<>> THEN <<cur>>
    ELSE IF s[1] = sep THEN <<cur>> \o SplitFrom(Tail(s), sep, <<>>)
    ELSE SplitFrom(Tail(s), sep, Append(cur, s[1]))
\* s.split(sep) for one character sep: "" splits into [""]
Split(s, sep) == SplitFrom(s, sep, <<>>)

RECURSIVE Join(_, _)
\* sep.join(parts)
Join(parts, sep) ==
    IF parts = <<>> THEN <<>>
    ELSE IF Len(parts) = 1 THEN parts[1]
    ELSE parts[1] \o sep \o Join(Tail(parts), sep)

RECURSIVE Remove(_, _)
\* s.replace(c, '') for one character c
Remove(s, c) ==
    IF s = <<>> THEN <<>>
    ELSE IF s[1] = c THEN Remove(Tail(s), c)
    ELSE <<s[1]>> \o Remove(Tail(s), c)

RECURSIVE NatToStr(_)
NatToStr(n) ==
    IF n < 10 THEN <<Digits[n + 1]>>
    ELSE Append(NatToStr(n \div 10), Digits[(n % 10) + 1])
\* str(n) of an int
IntToStr(n) == IF n < 0 THEN <<"-">> \o NatToStr(-n) ELSE NatToStr(n)

RECURSIVE DigitsValue(_, _, _)
\* the value of a run of digits of the base, single underscores allowed between
\* digits; -1 when the run is not a literal of the base
DigitsValue(s, base, acc) ==
    IF s = <<>> THEN acc
    ELSE IF s[1] = "_"
         THEN IF Len(s) >= 2 /\ IsDigit(s[2]) /\ IndexOf(Digits, s[2]) - 1 < base
              THEN DigitsValue(Tail(s), base, acc) ELSE -1
    ELSE IF IsDigit(s[1]) /\ IndexOf(Digits, s[1]) - 1 < base
         THEN DigitsValue(Tail(s), base, acc * base + IndexOf(Digits, s[1]) - 1)
    ELSE -1

\* int(s, base) for base 2 or 10: surrounding whitespace, one sign, the 0b
\* prefix of base 2, digits and single underscores between digits
ParseInt(s, base) ==
    LET t == Strip(s)
        neg == t # <<>> /\ t[1] = "-"
        u == IF t # <<>> /\ t[1] \in {"-", "+"} THEN Tail(t) ELSE t
        w == IF base = 2 /\ Len(u) >= 2 /\ u[1] = "0" /\ u[2] \in {"b", "B"}
             THEN LET r == Slice(u, 2, Len(u))
                  IN  IF r # <<>> /\ r[1] = "_" THEN Tail(r) ELSE r
             ELSE u
        v == IF w = <<>> \/ ~IsDigit(w[1]) THEN -1 ELSE DigitsValue(w, base, 0)
    IN  IF v < 0 THEN Err("ValueError") ELSE Ok(IF neg THEN -v ELSE v)

RECURSIVE BitsOfNat(_, _)
\* format(n, '0<w>b'): at least w binary digits, most significant first
BitsOfNat(n, w) ==
    IF n < 2 /\ w <= 1 THEN <<Digits[n + 1]>>
    ELSE Append(BitsOfNat(n \div 2, w - 1), Digits[(n % 2) + 1])

RECURSIVE BytesToBits_LSBFirst(_)
\* every byte written least significant bit first
BytesToBits_LSBFirst(bs) ==
    IF bs = <<>> THEN <<>>
    ELSE [j \in 1..8 |-> BitsOfNat(bs[1], 8)[9 - j]] \o BytesToBits_LSBFirst(Tail(bs))

RECURSIVE BytesToBits(_)
\* ''.join(format(byte, '08b') for byte in data)
BytesToBits(bs) ==
    IF bs = <<>> THEN <<>> ELSE BitsOfNat(bs[1], 8) \o BytesToBits(Tail(bs))

\* bytearray.append(n): a value outside range(0, 256) raises ValueError
ByteOf(r) ==
    IF ~r.ok THEN r
    ELSE IF r.val < 0 \/ r.val > 255 THEN Err("ValueError") ELSE r

RECURSIVE BitsToBytes_ZeroExtend(_)
\* a shorter trailing group filled up with zero bits to a byte of its own
BitsToBytes_ZeroExtend(bits) ==
    IF bits = <<>> THEN Ok(<<>>)
    ELSE IF Len(bits) < 8
    THEN Ok(<<ParseInt(bits \o Repeat(<<"0">>, 8 - Len(bits)), 2).val>>)
    ELSE LET b == ByteOf(ParseInt(SubSeq(bits, 1, 8), 2))
             rest == BitsToBytes_ZeroExtend(Slice(bits, 8, Len(bits)))
         IN  IF ~b.ok THEN b
             ELSE IF ~rest.ok THEN rest
             ELSE Ok(<<b.val>> \o rest.val)

RECURSIVE BitsToBytes(_)
\* the shared tail of the bit-field decoders: int(bits[i:i+8], 2) for every
\* full group of 8, a shorter trailing group dropped
BitsToBytes(bits) ==
    IF Len(bits) < 8 THEN Ok(<<>>)
    ELSE LET b == ByteOf(ParseInt(SubSeq(bits, 1, 8), 2))
             rest == BitsToBytes(Slice(bits, 8, Len(bits)))
         IN  IF ~b.ok THEN b
             ELSE IF ~rest.ok THEN rest
             ELSE Ok(<<b.val>> \o rest.val)

RECURSIVE ParseAll(_, _)
\* [int(x) for x in tokens]: the first token that is no literal raises
ParseAll(tokens, base) ==
    IF tokens = <<>> THEN Ok(<<>>)
    ELSE LET h == ParseInt(tokens[1], base)
         IN  IF ~h.ok THEN h
             ELSE LET r == ParseAll(Tail(tokens), base)
                  IN  IF ~r.ok THEN r ELSE Ok(<<h.val>> \o r.val)

RECURSIVE NonBlank(_)
\* [x for x in tokens if x.strip()]
NonBlank(tokens) ==
    IF tokens = <<>> THEN <<>>
    ELSE IF Strip(tokens[1]) # <<>> THEN <<tokens[1]>> \o NonBlank(Tail(tokens))
    ELSE NonBlank(Tail(tokens))

(***************************************************************************)
(* base64.b32encode / b32decode, bytes.hex / bytes.fromhex.                *)
(***************************************************************************)
B32Alphabet == Upper \o <<"2","3","4","5","6","7">>
HexDigits == <<"0","1","2","3","4","5","6","7","8","9","a","b","c","d","e","f">>

RECURSIVE BitsValue(_, _)
\* the unsigned value of a string of binary digits
BitsValue(bits, acc) ==
    IF bits = <<>> THEN acc
    ELSE BitsValue(Tail(bits), 2 * acc + (IF bits[1] = "1" THEN 1 ELSE 0))

RECURSIVE B32Chars(_)
\* one alphabet character per group of 5 bits
B32Chars(bits) ==
    IF bits = <<>> THEN <<>>
    ELSE <<B32Alphabet[BitsValue(SubSeq(bits, 1, 5), 0) + 1]>>
         \o B32Chars(Slice(bits, 5, Len(bits)))

\* the '=' characters that end the encoding of a last group of n bytes
B32PadChars(leftover) ==
    CASE leftover = 0 -> 0 [] leftover = 1 -> 6 [] leftover = 2 -> 4
      [] leftover = 3 -> 3 [] leftover = 4 -> 1

\* base64.b32encode(data).decode('ascii')
B32Encode(bs) ==
    LET leftover == Len(bs) % 5
        padded == IF leftover = 0 THEN bs
                  ELSE bs \o [i \in 1..(5 - leftover) |-> 0]
        chars == B32Chars(BytesToBits(padded))
        pad == B32PadChars(leftover)
    IN  SubSeq(chars, 1, Len(chars) - pad) \o Repeat(<<"=">>, pad)

RECURSIVE B32Bits(_)
\* 5 bits per alphabet character
B32Bits(chars) ==
    IF chars = <<>> THEN <<>>
    ELSE BitsOfNat(IndexOf(B32Alphabet, chars[1]) - 1, 5) \o B32Bits(Tail(chars))

RECURSIVE BitsToByteList(_)
\* int.to_bytes of an accumulator whose bit length is a multiple of 8
BitsToByteList(bits) ==
    IF Len(bits) < 8 THEN <<>>
    ELSE <<BitsValue(SubSeq(bits, 1, 8), 0)>>
         \o BitsToByteList(Slice(bits, 8, Len(bits)))

\* base64.b32decode(s)
B32Decode(s) ==
    LET l == Len(s)
        t == RStrip(s, "=")
        padchars == l - Len(t)
        leftover == (43 - 5 * padchars) \div 8
        full == BitsToByteList(B32Bits(t) \o Repeat(<<"0">>, (5 * padchars) % 40))
    IN  IF l % 8 # 0 THEN Err("binascii.Error")
        ELSE IF \E i \in DOMAIN t : t[i] \notin Range(B32Alphabet)
             THEN Err("binascii.Error")
        ELSE IF padchars \notin {0, 1, 3, 4, 6} THEN Err("binascii.Error")
        ELSE IF padchars > 0 /\ t # <<>>
             THEN Ok(SubSeq(full, 1, Len(full) - 5 + leftover))
        ELSE Ok(full)

RECURSIVE HexOf(_)
\* data.hex(): two lower-case hexadecimal digits per byte
HexOf(bs) ==
    IF bs = <<>> THEN <<>>
    ELSE <<HexDigits[(bs[1] \div 16) + 1], HexDigits[(bs[1] % 16) + 1]>>
         \o HexOf(Tail(bs))

IsHexDigit(c) == LowerChar(c) \in Range(HexDigits)
HexValue(c) == IndexOf(HexDigits, LowerChar(c)) - 1

RECURSIVE FromHex(_)
\* bytes.fromhex(s): whitespace between bytes is skipped, anything that is
\* not a pair of hexadecimal digits raises ValueError
FromHex(s) ==
    LET t == LStripSpace(s)
    IN  IF t = <<>> THEN Ok(<<>>)
        ELSE IF Len(t) < 2 \/ ~IsHexDigit(t[1]) \/ ~IsHexDigit(t[2])
             THEN Err("ValueError")
        ELSE LET r == FromHex(Slice(t, 2, Len(t)))
             IN  IF ~r.ok THEN r
                 ELSE Ok(<<16 * HexValue(t[1]) + HexValue(t[2])>> \o r.val)

(***************************************************************************)
(* Base32Channel, HexChannel, XORBase32Channel.                            *)
(***************************************************************************)
Base32Channel_encode(bs) == StrLower(RStrip(B32Encode(bs), "="))

\* the padding computed without the final "% 8": a full last quantum gets 8 '='
Base32Channel_decode_NoWrap(s) ==
    LET up == StrUpper(s)
        padding == 8 - (Len(up) % 8)
    IN  B32Decode(up \o Repeat(<<"=">>, padding))

Base32Channel_decode(s) ==
    LET up == StrUpper(s)
        padding == (8 - (Len(up) % 8)) % 8
    IN  B32Decode(up \o Repeat(<<"=">>, padding))

HexChannel_encode(bs) == HexOf(bs)

HexChannel_decode(s) == FromHex(s)

\* one byte XOR one byte
XorByte(a, b) ==
    LET x == BitsOfNat(a, 8)
        y == BitsOfNat(b, 8)
    IN  BitsValue([i \in 1..8 |-> IF x[i] = y[i] THEN "0" ELSE "1"], 0)

\* the key is not cycled: past its end the last key byte is used
XorCipher_NoCycle(key, bs) ==
    IF key = <<>> THEN bs
    ELSE [i \in DOMAIN bs |-> XorByte(bs[i], key[IF i <= Len(key) THEN i ELSE Len(key)])]

\* XORBase32Channel._xor_cipher with the configured key
XorCipher(key, bs) ==
    IF key = <<>> THEN bs
    ELSE [i \in DOMAIN bs |-> XorByte(bs[i], key[((i - 1) % Len(key)) + 1])]

XORBase32Channel_encode(key, bs) ==
    StrLower(RStrip(B32Encode(XorCipher(key, bs)), "="))

XORBase32Channel_decode(key, s) ==
    LET up == StrUpper(s)
        padding == (8 - (Len(up) % 8)) % 8
        encrypted == B32Decode(up \o Repeat(<<"=">>, padding))
    IN  IF ~encrypted.ok THEN encrypted ELSE Ok(XorCipher(key, encrypted.val))

(***************************************************************************)
(* The tagged wire format "<TAG>:<v1>,<v2>,...".                           *)
(***************************************************************************)
TagTXID == <<"T","X","I","D",":">>
TagTTL == <<"T","T","L",":">>
TagDNSTTL == <<"D","N","S","-","T","T","L",":">>
TagRD == <<"R","D",":">>
TagQTYPE == <<"Q","T","Y","P","E",":">>
TagLABELCOUNT == <<"L","A","B","E","L","C","O","U","N","T",":">>

\* the prefix is never removed
StripTag_Keep(s, tag) == s

\* if s.startswith(tag): s = s[len(tag):]
StripTag(s, tag) == IF StartsWith(s, tag) THEN Slice(s, Len(tag), Len(s)) ELSE s

\* ",".join(str(v) for v in vals)
JoinInts(vals) == Join([i \in DOMAIN vals |-> IntToStr(vals[i])], <<",">>)

\* [int(x.strip()) for x in s.split(',') if x.strip()]
ParseFiltered(s) == ParseAll(NonBlank(Split(s, ",")), 10)

\* [int(x.strip()) for x in s.split(',')]
ParseUnfiltered(s) == ParseAll(Split(s, ","), 10)

(***************************************************************************)
(* TXIDChannel: cfg.preserve_high_bit, cfg.randomize_unused.               *)
(***************************************************************************)
RECURSIVE TXIDValues_LittleEndian(_, _)
\* struct.unpack('<H', chunk) in place of '>H'
TXIDValues_LittleEndian(cfg, bs) ==
    IF bs = <<>> THEN <<>>
    ELSE LET chunk == IF Len(bs) < 2 THEN <<bs[1], 0>> ELSE SubSeq(bs, 1, 2)
             txid == chunk[1] + 256 * chunk[2]
             kept == IF cfg.preserve_high_bit THEN txid % 32768 ELSE txid
         IN  <<kept>> \o TXIDValues_LittleEndian(cfg, Slice(bs, 2, Len(bs)))

RECURSIVE TXIDValues(_, _)
\* the loop of TXIDChannel.encode: one 16-bit value per 2-byte chunk
TXIDValues(cfg, bs) ==
    IF bs = <<>> THEN <<>>
    ELSE LET chunk == IF Len(bs) < 2 THEN <<bs[1], 0>> ELSE SubSeq(bs, 1, 2)
             txid == 256 * chunk[1] + chunk[2]
             kept == IF cfg.preserve_high_bit THEN txid % 32768 ELSE txid
         IN  <<kept>> \o TXIDValues(cfg, Slice(bs, 2, Len(bs)))

\* encode that never clears the high bit
TXIDChannel_encode_NoMask(cfg, bs) ==
    TagTXID \o JoinInts(TXIDValues([cfg EXCEPT !.preserve_high_bit = FALSE], bs))

TXIDChannel_encode(cfg, bs) == TagTXID \o JoinInts(TXIDValues(cfg, bs))

RECURSIVE TXIDPack_LittleEndian(_)
\* struct.pack('<H', ...) in place of '>H'
TXIDPack_LittleEndian(vals) ==
    IF vals = <<>> THEN <<>>
    ELSE LET t == vals[1] % 65536
         IN  <<t % 256, t \div 256>> \o TXIDPack_LittleEndian(Tail(vals))

RECURSIVE TXIDPack(_)
\* struct.pack('>H', txid & 0xFFFF) for every value
TXIDPack(vals) ==
    IF vals = <<>> THEN <<>>
    ELSE LET t == vals[1] % 65536
         IN  <<t \div 256, t % 256>> \o TXIDPack(Tail(vals))

TXIDChannel_decode(cfg, s) ==
    LET parsed == ParseFiltered(StripTag(s, TagTXID))
    IN  IF ~parsed.ok THEN parsed ELSE Ok(TXIDPack(parsed.val))

TXIDChannel_get_txid_values(cfg, bs) ==
    ParseFiltered(StripTag(TXIDChannel_encode(cfg, bs), TagTXID))

(***************************************************************************)
(* TTLChannel and TTLDNSChannel: cfg.offset, cfg.marker_start and          *)
(* cfg.marker_end; a marker is <<>> (None) or <<m>>.                       *)
(***************************************************************************)
\* the wire value without the remap of 0 to 1
TTLWire_NoRemap(offset, modulus, byte) == (byte + offset) % modulus

\* the wire value of one byte: (byte + offset) % modulus, 0 sent as 1
TTLWire(offset, modulus, byte) ==
    LET ttl == (byte + offset) % modulus
    IN  IF ttl = 0 THEN 1 ELSE ttl

\* marker_start, the data values, marker_end
TTLSequence(cfg, modulus, bs) ==
    cfg.marker_start \o [i \in DOMAIN bs |-> TTLWire(cfg.offset, modulus, bs[i])]
                     \o cfg.marker_end

TTLChannel_encode(cfg, bs) == TagTTL \o JoinInts(TTLSequence(cfg, 256, bs))

\* the offset is not reversed
TTLUnwire_NoOffset(offset, vals) == [i \in DOMAIN vals |-> vals[i] % 256]

\* byte = (ttl - offset) % 256 for every value
TTLUnwire(offset, vals) == [i \in DOMAIN vals |-> (vals[i] - offset) % 256]

\* if marker_start is not None and ttl_values[0] == marker_start: drop it
TTLStripStart(cfg, vals) ==
    IF cfg.marker_start # <<>> /\ vals[1] = cfg.marker_start[1] THEN Tail(vals) ELSE vals

\* if marker_end is not None and ttl_values[-1] == marker_end: drop it;
\* ttl_values[-1] of an empty list raises IndexError
TTLStripEnd(cfg, vals) ==
    IF cfg.marker_end = <<>> THEN Ok(vals)
    ELSE IF vals = <<>> THEN Err("IndexError")
    ELSE IF vals[Len(vals)] = cfg.marker_end[1] THEN Ok(SubSeq(vals, 1, Len(vals) - 1))
    ELSE Ok(vals)

\* the tail of TTLChannel.decode: strip the end marker, reverse the offset
TTLFinish(cfg, vals) ==
    IF ~TTLStripEnd(cfg, vals).ok THEN TTLStripEnd(cfg, vals)
    ELSE Ok(TTLUnwire(cfg.offset, TTLStripEnd(cfg, vals).val))

\* start-marker stripping that removes a second leading value equal to it
TTLStripStart_Twice(cfg, vals) ==
    IF cfg.marker_start # <<>> /\ vals[1] = cfg.marker_start[1]
    THEN IF Len(vals) >= 2 /\ vals[2] = cfg.marker_start[1]
         THEN Tail(Tail(vals)) ELSE Tail(vals)
    ELSE vals

\* decode that strips two leading values equal to marker_start, not just one
TTLChannel_decode_StripAll(cfg, s) ==
    IF ~ParseUnfiltered(StripTag(s, TagTTL)).ok THEN ParseUnfiltered(StripTag(s, TagTTL))
    ELSE TTLFinish(cfg, TTLStripStart_Twice(cfg, ParseUnfiltered(StripTag(s, TagTTL)).val))

TTLChannel_decode(cfg, s) ==
    IF ~ParseUnfiltered(StripTag(s, TagTTL)).ok THEN ParseUnfiltered(StripTag(s, TagTTL))
    ELSE TTLFinish(cfg, TTLStripStart(cfg, ParseUnfiltered(StripTag(s, TagTTL)).val))

TTLChannel_get_ttl_values(cfg, bs) ==
    ParseUnfiltered(StripTag(TTLChannel_encode(cfg, bs), TagTTL))

\* the seconds channel wrapping at 256 as the byte channel does
TTLDNSChannel_encode_Mod256(cfg, bs) == TagDNSTTL \o JoinInts(TTLSequence(cfg, 256, bs))

TTLDNSChannel_encode(cfg, bs) == TagDNSTTL \o JoinInts(TTLSequence(cfg, 65536, bs))

\* the marker checks of TTLDNSChannel.decode, each guarded by "and ttl_values"
TTLDNSStripStart(cfg, vals) ==
    IF cfg.marker_start # <<>> /\ vals # <<>> /\ vals[1] = cfg.marker_start[1]
    THEN Tail(vals) ELSE vals

TTLDNSStripEnd(cfg, vals) ==
    IF cfg.marker_end # <<>> /\ vals # <<>> /\ vals[Len(vals)] = cfg.marker_end[1]
    THEN SubSeq(vals, 1, Len(vals) - 1) ELSE vals

TTLDNSChannel_decode(cfg, s) ==
    IF ~ParseFiltered(StripTag(s, TagDNSTTL)).ok THEN ParseFiltered(StripTag(s, TagDNSTTL))
    ELSE Ok(TTLUnwire(cfg.offset,
                      TTLDNSStripEnd(cfg, TTLDNSStripStart(cfg,
                          ParseFiltered(StripTag(s, TagDNSTTL)).val))))

TTLDNSChannel_get_ttl_values(cfg, bs) ==
    ParseFiltered(StripTag(TTLDNSChannel_encode(cfg, bs), TagDNSTTL))

(***************************************************************************)
(* RDFlagChannel: cfg.invert.                                              *)
(***************************************************************************)
\* ''.join('1' if b == '0' else '0' for b in bits)
InvertBits(bits) == [i \in DOMAIN bits |-> IF bits[i] = "0" THEN "1" ELSE "0"]

\* the bit string both encode and get_rd_flags start from
RDBits(cfg, bs) ==
    IF cfg.invert THEN InvertBits(BytesToBits(bs)) ELSE BytesToBits(bs)

RDFlagChannel_encode(cfg, bs) ==
    LET bits == RDBits(cfg, bs)
    IN  TagRD \o Join([i \in DOMAIN bits |-> <<bits[i]>>], <<",">>)

\* decode that forgets the inversion
RDFlagChannel_decode_NoInvert(cfg, s) ==
    BitsToBytes(Remove(Remove(StripTag(s, TagRD), ","), " "))

RDFlagChannel_decode(cfg, s) ==
    LET raw == Remove(Remove(StripTag(s, TagRD), ","), " ")
        bits == IF cfg.invert THEN InvertBits(raw) ELSE raw
    IN  BitsToBytes(bits)

RDFlagChannel_get_rd_flags(cfg, bs) ==
    LET bits == Remove(Remove(StripTag(RDFlagChannel_encode(cfg, bs), TagRD), ","), " ")
    IN  Ok([i \in DOMAIN bits |-> bits[i] = "1"])

(***************************************************************************)
(* CaseToggleChannel: cfg.base_label.                                      *)
(***************************************************************************)
CaseToggleChannel_encode(cfg, bs) ==
    LET bits == BytesToBits(bs)
        label == cfg.base_label
    IN  IF label = <<>> THEN Err("ZeroDivisionError")
        ELSE LET base == Slice(Repeat(label, (Len(bits) \div Len(label)) + 1),
                               0, Len(bits))
             IN  Ok([i \in DOMAIN bits |->
                       IF IsAlpha(base[i])
                       THEN IF bits[i] = "1" THEN UpperChar(base[i])
                            ELSE LowerChar(base[i])
                       ELSE base[i]])

RECURSIVE CaseBits(_)
\* one bit per alphabetic character: upper case 1, lower case 0
CaseBits(s) ==
    IF s = <<>> THEN <<>>
    ELSE IF IsAlpha(s[1])
         THEN <<IF IsUpperChar(s[1]) THEN "1" ELSE "0">> \o CaseBits(Tail(s))
    ELSE CaseBits(Tail(s))

CaseToggleChannel_decode(cfg, s) == BitsToBytes(CaseBits(s))

(***************************************************************************)
(* QTypeChannel (cfg.types) and LabelCountChannel (cfg.min_labels,         *)
(* cfg.max_labels).                                                        *)
(***************************************************************************)
RECURSIVE Log2Floor(_)
\* int(math.log2(n)) for n >= 1
Log2Floor(n) == IF n < 2 THEN 0 ELSE 1 + Log2Floor(n \div 2)

RECURSIVE ChunkValues_LastFirst(_, _)
\* the chunk values collected in reverse order
ChunkValues_LastFirst(bits, w) ==
    IF bits = <<>> THEN <<>>
    ELSE LET chunk == Slice(bits, 0, w)
             padded == chunk \o Repeat(<<"0">>, w - Len(chunk))
         IN  ChunkValues_LastFirst(Slice(bits, w, Len(bits)), w) \o <<BitsValue(padded, 0)>>

RECURSIVE ChunkValues_DropPartial(_, _)
\* a last chunk shorter than w left out instead of padded
ChunkValues_DropPartial(bits, w) ==
    IF Len(bits) < w \/ bits = <<>> THEN <<>>
    ELSE <<BitsValue(Slice(bits, 0, w), 0)>>
            \o ChunkValues_DropPartial(Slice(bits, w, Len(bits)), w)

RECURSIVE ChunkValues(_, _)
\* int(bits[i:i+w].ljust(w, '0'), 2) for i in range(0, len(bits), w), w >= 1
ChunkValues(bits, w) ==
    IF bits = <<>> THEN <<>>
    ELSE LET chunk == Slice(bits, 0, w)
             padded == chunk \o Repeat(<<"0">>, w - Len(chunk))
         IN  <<BitsValue(padded, 0)>> \o ChunkValues(Slice(bits, w, Len(bits)), w)

DEFAULT_TYPES ==
    << <<"A">>, <<"A","A","A","A">>, <<"T","X","T">>, <<"M","X">>,
       <<"C","N","A","M","E">>, <<"N","S">>, <<"P","T","R">>, <<"S","O","A">>,
       <<"S","R","V">>, <<"C","A","A">>, <<"D","N","S","K","E","Y">>, <<"D","S">>,
       <<"N","A","P","T","R">>, <<"T","L","S","A">>, <<"A","N","Y">>,
       <<"A","X","F","R">> >>

\* the width rounded up instead of down
QTypeBits_Ceil(cfg) == Log2Floor(Len(cfg.types)) + 1

\* QTypeChannel._calculate_bits_per_query
QTypeBits(cfg) == Log2Floor(Len(cfg.types))

\* the position counted from 1
TypeToValue_OneBased(cfg, t) ==
    CHOOSE i \in DOMAIN cfg.types :
        cfg.types[i] = t /\ \A j \in DOMAIN cfg.types : cfg.types[j] = t => j <= i

\* type_to_value[t]: the last index of t in the list
TypeToValue(cfg, t) ==
    (CHOOSE i \in DOMAIN cfg.types :
        cfg.types[i] = t /\ \A j \in DOMAIN cfg.types : cfg.types[j] = t => j <= i) - 1

\* the chunk values get_qtype_sequence maps to type names
QTypeChunkValues(cfg, bs) == ChunkValues(BytesToBits(bs), QTypeBits(cfg))

\* range(0, len(bits), 0) raises ValueError
QTypeChannel_get_qtype_sequence(cfg, bs) ==
    IF QTypeBits(cfg) = 0 THEN Err("ValueError")
    ELSE LET vals == QTypeChunkValues(cfg, bs)
         IN  Ok([i \in DOMAIN vals |->
                   IF vals[i] < Len(cfg.types) THEN cfg.types[vals[i] + 1]
                   ELSE cfg.types[1]])

QTypeChannel_encode(cfg, bs) ==
    LET seq == QTypeChannel_get_qtype_sequence(cfg, bs)
    IN  IF ~seq.ok THEN seq ELSE Ok(TagQTYPE \o Join(seq.val, <<",">>))

RECURSIVE QTypeDecodeBits(_, _)
QTypeDecodeBits(cfg, toks) ==
    IF toks = <<>> THEN <<>>
    ELSE LET t == StrUpper(Strip(toks[1]))
             bits == IF t \in Range(cfg.types)
                     THEN BitsOfNat(TypeToValue(cfg, t), QTypeBits(cfg))
                     ELSE Repeat(<<"0">>, QTypeBits(cfg))
         IN  bits \o QTypeDecodeBits(cfg, Tail(toks))

QTypeChannel_decode(cfg, s) ==
    BitsToBytes(QTypeDecodeBits(cfg, NonBlank(Split(StripTag(s, TagQTYPE), ","))))

\* LabelCountChannel.__init__: num_values and bits_per_query
LabelNumValues(cfg) == cfg.max_labels - cfg.min_labels + 1
\* the width rounded up instead of down
LabelBits_Ceil(cfg) == Log2Floor(LabelNumValues(cfg)) + 1
LabelBits(cfg) == Log2Floor(LabelNumValues(cfg))

Min(a, b) == IF a < b THEN a ELSE b
Max(a, b) == IF a > b THEN a ELSE b

\* the chunk values LabelCountChannel.encode offsets by min_labels
LabelChunkValues(cfg, bs) == ChunkValues(BytesToBits(bs), LabelBits(cfg))

\* the label counts of LabelCountChannel.encode
LabelCounts(cfg, bs) ==
    LET vals == LabelChunkValues(cfg, bs)
    IN  [i \in DOMAIN vals |-> Min(vals[i] + cfg.min_labels, cfg.max_labels)]

LabelCountChannel_encode(cfg, bs) ==
    IF LabelBits(cfg) = 0 THEN Err("ValueError")
    ELSE Ok(TagLABELCOUNT \o JoinInts(LabelCounts(cfg, bs)))

RECURSIVE LabelDecodeBits(_, _)
LabelDecodeBits(cfg, counts) ==
    IF counts = <<>> THEN <<>>
    ELSE LET value == Max(0, Min(counts[1] - cfg.min_labels, LabelNumValues(cfg) - 1))
         IN  BitsOfNat(value, LabelBits(cfg)) \o LabelDecodeBits(cfg, Tail(counts))

LabelCountChannel_decode(cfg, s) ==
    LET parsed == ParseFiltered(StripTag(s, TagLABELCOUNT))
    IN  IF ~parsed.ok THEN parsed ELSE BitsToBytes(LabelDecodeBits(cfg, parsed.val))

LabelCountChannel_get_label_counts(cfg, bs) ==
    LET enc == LabelCountChannel_encode(cfg, bs)
    IN  IF ~enc.ok THEN enc ELSE ParseFiltered(StripTag(enc.val, TagLABELCOUNT))

(***************************************************************************)
(* The state machine: a channel is constructed with its configuration      *)
(* (Init), then encode, the values accessor and decode are called on it.   *)
(***************************************************************************)
\* no script has run: the channel was constructed directly
NoCli == [script |-> "none", name |-> "none", status |-> "none"]

\* no query list has been built and no send loop is running
NoNet ==
    [fn |-> "none", at |-> "idle", queue |-> <<>>, i |-> 0, responses |-> <<>>,
     log |-> <<>>, delay |-> 0, wait |-> FALSE, mode |-> "none", root |-> FALSE,
     scapy |-> FALSE, result |-> None]

\* all sequences over S of length at most n
SeqsUpTo(S, n) == UNION {[1..k -> S] : k \in 0..n}

\* the state right after channel_class(config), the caller holding payload P
Constructed(c, P) ==
    /\ chan = c
    /\ data = P
    /\ encoded = None
    /\ origin = "none"
    /\ decoded = None
    /\ values = None
    /\ pc = "new"
    /\ cli = NoCli
    /\ net = NoNet

\* encoded = channel.encode(data)
EncodeStep(name, result) ==
    /\ chan.name = name
    /\ pc = "new"
    /\ encoded' = result
    /\ origin' = "encode"
    /\ pc' = "encoded"
    /\ UNCHANGED <<chan, data, decoded, values, cli, net>>

\* decoded = channel.decode(encoded): the caller has a string to decode
DecodeStep(name, result) ==
    /\ chan.name = name
    /\ pc = "encoded"
    /\ encoded.ok
    /\ decoded' = result
    /\ pc' = "decoded"
    /\ UNCHANGED <<chan, data, encoded, origin, values, cli, net>>

\* values = channel.get_..._values(data)
ValuesStep(name, result) ==
    /\ chan.name = name
    /\ values = None
    /\ values' = result
    /\ UNCHANGED <<chan, data, encoded, origin, decoded, pc, cli, net>>

Base32Encode == EncodeStep("base32", Ok(Base32Channel_encode(data)))
Base32Decode == DecodeStep("base32", Base32Channel_decode(encoded.val))
HexEncode == EncodeStep("hex", Ok(HexChannel_encode(data)))
HexDecode == DecodeStep("hex", HexChannel_decode(encoded.val))
XorEncode == EncodeStep("xor", Ok(XORBase32Channel_encode(chan.key, data)))
XorDecode == DecodeStep("xor", XORBase32Channel_decode(chan.key, encoded.val))

TXIDEncode == EncodeStep("txid", Ok(TXIDChannel_encode(chan, data)))
TXIDDecode == DecodeStep("txid", TXIDChannel_decode(chan, encoded.val))
TXIDGetValues == ValuesStep("txid", TXIDChannel_get_txid_values(chan, data))

TTLEncode == EncodeStep("ttl", Ok(TTLChannel_encode(chan, data)))
TTLDecode == DecodeStep("ttl", TTLChannel_decode(chan, encoded.val))
TTLGetValues == ValuesStep("ttl", TTLChannel_get_ttl_values(chan, data))

TTLDNSEncode == EncodeStep("ttl-dns", Ok(TTLDNSChannel_encode(chan, data)))
TTLDNSDecode == DecodeStep("ttl-dns", TTLDNSChannel_decode(chan, encoded.val))
TTLDNSGetValues == ValuesStep("ttl-dns", TTLDNSChannel_get_ttl_values(chan, data))

RDEncode == EncodeStep("rd", Ok(RDFlagChannel_encode(chan, data)))
RDDecode == DecodeStep("rd", RDFlagChannel_decode(chan, encoded.val))
RDGetFlags == ValuesStep("rd", RDFlagChannel_get_rd_flags(chan, data))

CaseEncode == EncodeStep("case", CaseToggleChannel_encode(chan, data))
CaseDecode == DecodeStep("case", CaseToggleChannel_decode(chan, encoded.val))

QTypeEncode == EncodeStep("qtype", QTypeChannel_encode(chan, data))
QTypeDecode == DecodeStep("qtype", QTypeChannel_decode(chan, encoded.val))
QTypeGetSequence == ValuesStep("qtype", QTypeChannel_get_qtype_sequence(chan, data))

LabelsEncode == EncodeStep("labels", LabelCountChannel_encode(chan, data))
LabelsDecode == DecodeStep("labels", LabelCountChannel_decode(chan, encoded.val))
LabelsGetCounts == ValuesStep("labels", LabelCountChannel_get_label_counts(chan, data))

\* decode_message(channel_name, encoded_data): a string from outside is decoded
Supply(s, from) ==
    /\ pc = "new"
    /\ encoded' = Ok(s)
    /\ origin' = from
    /\ pc' = "encoded"
    /\ UNCHANGED <<chan, data, decoded, values, cli, net>>

(***************************************************************************)
(* Byte-aligned channels.                                                  *)
(***************************************************************************)
MaxLenAligned == 5
AlignedBytes == {0, 90, 255}
\* b'SecretKey123'
DefaultKey == <<83, 101, 99, 114, 101, 116, 75, 101, 121, 49, 50, 51>>
Keys == {<<>>, DefaultKey, <<255, 1>>}

AlignedChannels ==
    {[name |-> "base32"], [name |-> "hex"]} \cup {[name |-> "xor", key |-> k] : k \in Keys}

InitAligned ==
    \E c \in AlignedChannels, P \in SeqsUpTo(AlignedBytes, MaxLenAligned) : Constructed(c, P)

NextAligned ==
    \/ Base32Encode \/ Base32Decode
    \/ HexEncode \/ HexDecode
    \/ XorEncode \/ XorDecode

SpecAligned == InitAligned /\ [][NextAligned]_vars

\* C1: for Base32Channel, HexChannel and XORBase32Channel (any key), decoding
\* what encode returned gives back the payload, whatever its length.
C1_AlignedRoundTrip ==
    (pc = "decoded" /\ origin = "encode") => decoded = Ok(data)

\* an XOR channel with the empty key has round-tripped a 3-byte payload
C1_Witness ==
    /\ pc = "decoded" /\ origin = "encode"
    /\ chan.name = "xor" /\ chan.key = <<>>
    /\ Len(data) = 3 /\ decoded = Ok(data)

(***************************************************************************)
(* TXIDChannel.                                                            *)
(***************************************************************************)
MaxLenTXID == 3
TXIDBytes == {0, 1, 127, 128, 255}

TXIDChannels ==
    {[name |-> "txid", preserve_high_bit |-> p, randomize_unused |-> r] :
        p \in BOOLEAN, r \in BOOLEAN}

InitTXID ==
    \E c \in TXIDChannels, P \in SeqsUpTo(TXIDBytes, MaxLenTXID) : Constructed(c, P)

NextTXID == TXIDEncode \/ TXIDDecode \/ TXIDGetValues

SpecTXID == InitTXID /\ [][NextTXID]_vars

TXIDRoundTripped(high) ==
    /\ pc = "decoded" /\ origin = "encode"
    /\ chan.name = "txid" /\ chan.preserve_high_bit = high

\* C2 as stated: with preserve_high_bit=False decode(encode(P)) == P for every
\* payload, of even or odd length.
C2_TXIDRoundTripAnyLength ==
    TXIDRoundTripped(FALSE) => decoded = Ok(data)

\* C2 amended: with preserve_high_bit=False decode(encode(P)) == P for every
\* payload of even length; for an odd length the result is P followed by the
\* zero byte that padded the last chunk.
C2_TXIDRoundTripEven ==
    TXIDRoundTripped(FALSE) =>
        decoded = Ok(IF Len(data) % 2 = 0 THEN data ELSE data \o <<0>>)

\* a 3-byte payload came back 4 bytes long
C2_Witness ==
    /\ TXIDRoundTripped(FALSE)
    /\ Len(data) = 3 /\ decoded = Ok(data \o <<0>>)

\* the payload zero-padded to whole 2-byte chunks
TXIDPadded(P) == IF Len(P) % 2 = 0 THEN P ELSE P \o <<0>>
\* the k-th (from 0) big-endian 16-bit chunk of a byte string of even length
TXIDChunk(bs, k) == 256 * bs[2 * k + 1] + bs[2 * k + 2]

\* C7: with preserve_high_bit=True every decoded 16-bit chunk is the original
\* chunk AND 0x7FFF, and decode(encode(P)) differs from P whenever some chunk
\* of P has its most significant bit set.
C7_TXIDHighBitLost ==
    TXIDRoundTripped(TRUE) =>
        /\ decoded.ok
        /\ Len(decoded.val) = Len(TXIDPadded(data))
        /\ \A k \in 0..((Len(decoded.val) \div 2) - 1) :
              TXIDChunk(decoded.val, k) = TXIDChunk(TXIDPadded(data), k) % 32768
        /\ (\E k \in 0..((Len(TXIDPadded(data)) \div 2) - 1) :
              TXIDChunk(TXIDPadded(data), k) >= 32768)
           => decoded # Ok(data)

\* a 2-byte payload whose chunk has the high bit set came back with it cleared
C7_Witness ==
    /\ TXIDRoundTripped(TRUE)
    /\ Len(data) = 2 /\ data[1] = 255
    /\ decoded = Ok(<<127, data[2]>>)

(***************************************************************************)
(* RDFlagChannel.                                                          *)
(***************************************************************************)
MaxLenRD == 2
RDBytes == {0, 65, 128, 255}

RDChannels == {[name |-> "rd", invert |-> v] : v \in BOOLEAN}

InitRD == \E c \in RDChannels, P \in SeqsUpTo(RDBytes, MaxLenRD) : Constructed(c, P)

NextRD == RDEncode \/ RDDecode \/ RDGetFlags

SpecRD == InitRD /\ [][NextRD]_vars

\* C8: RDFlagChannel round-trips every payload, with invert=False and with
\* invert=True.
C8_RDRoundTrip ==
    (pc = "decoded" /\ origin = "encode" /\ chan.name = "rd") => decoded = Ok(data)

\* an inverting channel has round-tripped a 2-byte payload
C8_Witness ==
    /\ pc = "decoded" /\ origin = "encode" /\ chan.name = "rd"
    /\ chan.invert /\ data = <<65, 128>> /\ decoded = Ok(data)

(***************************************************************************)
(* CaseToggleChannel.                                                      *)
(***************************************************************************)
MaxLenCase == 2
CaseBytes == {0, 65, 255}
CaseLabels ==
    { <<"d","a","t","a">>, <<"d","4","t","a">>, <<"a","-","b">>, <<"w","w","w",".","x">>,
      <<"X">> }

CaseChannels == {[name |-> "case", base_label |-> l, preserve_dots |-> TRUE] : l \in CaseLabels}

InitCase == \E c \in CaseChannels, P \in SeqsUpTo(CaseBytes, MaxLenCase) : Constructed(c, P)

NextCase == CaseEncode \/ CaseDecode

SpecCase == InitCase /\ [][NextCase]_vars

\* C6: CaseToggleChannel round-trips for every non-empty template, templates
\* with digits, hyphens or dots included: decode(encode(P)) == P.
C6_CaseRoundTrip ==
    (pc = "decoded" /\ origin = "encode" /\ chan.name = "case") => decoded = Ok(data)

(***************************************************************************)
(* TTLChannel and TTLDNSChannel with offsets and markers.                  *)
(***************************************************************************)
MaxLenTTL == 2
TTLBytes == {0, 62, 72, 255}
TTLOffsets == {0, 10}
TTLMarkers == {<<>>, <<1>>, <<72>>, <<255>>}

TTLFamily(names, offsets, markers) ==
    {[name |-> n, offset |-> k, marker_start |-> ms, marker_end |-> me] :
        n \in names, k \in offsets, ms \in markers, me \in markers}

\* the same channel constructed without markers
Markerless(c) == [c EXCEPT !.marker_start = <<>>, !.marker_end = <<>>]

\* decode is handed the bare data values of the payload, as a sender
\* configured without markers produces them
TTLSupplyUnframed ==
    /\ chan.name = "ttl"
    /\ Supply(TTLChannel_encode(Markerless(chan), data), "unframed")

InitTTL ==
    \E c \in TTLFamily({"ttl", "ttl-dns"}, TTLOffsets, TTLMarkers),
       P \in SeqsUpTo(TTLBytes, MaxLenTTL) : Constructed(c, P)

NextTTL ==
    \/ TTLEncode \/ TTLDecode \/ TTLGetValues
    \/ TTLDNSEncode \/ TTLDNSDecode \/ TTLDNSGetValues
    \/ TTLSupplyUnframed

SpecTTL == InitTTL /\ [][NextTTL]_vars

\* a TTLChannel with marker_start configured has decoded something made from a
\* payload whose first byte maps to the wire value marker_start
SentinelCollision(from) ==
    /\ pc = "decoded" /\ origin = from
    /\ chan.name = "ttl" /\ chan.marker_start # <<>>
    /\ data # <<>>
    /\ TTLWire(chan.offset, 256, data[1]) = chan.marker_start[1]

\* C4 as stated: when the first byte of P maps to marker_start,
\* decode(encode(P)) is missing a byte of P.
C4_CollisionLosesByte ==
    SentinelCollision("encode") => (decoded.ok /\ Len(decoded.val) < Len(data))

\* C4 amended: when the first byte of P maps to marker_start, decode(encode(P))
\* strips only the marker that encode prepended and returns len(P) bytes; the
\* data byte is stripped when decode is handed the unframed data values of P:
\* it then returns fewer than len(P) bytes, or raises IndexError when the only
\* value was stripped and marker_end is configured.
C4_CollisionOnUnframed ==
    /\ SentinelCollision("encode") => (decoded.ok /\ Len(decoded.val) = Len(data))
    /\ SentinelCollision("unframed") =>
          IF Len(data) = 1 /\ chan.marker_end # <<>>
          THEN decoded = Err("IndexError")
          ELSE decoded.ok /\ Len(decoded.val) < Len(data)

\* marker_start=72: the unframed values 72,255 of b"H\xff" decoded to one byte
C4_Witness ==
    /\ SentinelCollision("unframed")
    /\ chan.offset = 0 /\ chan.marker_end = <<>>
    /\ data = <<72, 255>> /\ decoded = Ok(<<255>>)

\* a TTL-family channel with at least one marker configured
HasMarker == chan.name \in {"ttl", "ttl-dns"} /\ (chan.marker_start # <<>> \/ chan.marker_end # <<>>)

\* decode(encode(P)) of the channel c
TTLRoundTrip(c, P) ==
    IF c.name = "ttl" THEN TTLChannel_decode(c, TTLChannel_encode(c, P))
    ELSE TTLDNSChannel_decode(c, TTLDNSChannel_encode(c, P))

\* C5: with markers configured the value sequence is marker_start, the data
\* values, marker_end, and decode(encode(P)) returns what the marker-less
\* channel with the same offset returns for P.
C5_MarkersSymmetric ==
    HasMarker =>
        /\ values # None =>
              values = Ok(chan.marker_start
                          \o [i \in DOMAIN data |->
                                TTLWire(chan.offset, IF chan.name = "ttl" THEN 256 ELSE 65536,
                                        data[i])]
                          \o chan.marker_end)
        /\ (pc = "decoded" /\ origin = "encode") =>
              decoded = TTLRoundTrip(Markerless(chan), data)

(***************************************************************************)
(* TTLChannel without markers, every byte value.                           *)
(***************************************************************************)
ByteOffsets == {-3, 0, 10, 255, 256}

InitTTLByte ==
    \E c \in TTLFamily({"ttl"}, ByteOffsets, {<<>>}), b \in 0..255 : Constructed(c, <<b>>)

NextTTLByte == TTLEncode \/ TTLDecode \/ TTLGetValues

SpecTTLByte == InitTTLByte /\ [][NextTTLByte]_vars

\* the byte that (b + offset) % 256 sends to 0, and its successor
ZeroByte(k) == (-k) % 256
OneByte(k) == (ZeroByte(k) + 1) % 256

\* C10: the wire value of byte b is (b + k) mod 256 with 0 replaced by 1; the
\* bytes z = (-k) mod 256 and z + 1 both have wire value 1 and both decode to
\* z + 1; no other two distinct bytes share a wire value.
C10_ZeroRemapOnlyCollision ==
    (chan.name = "ttl" /\ chan.marker_start = <<>> /\ chan.marker_end = <<>> /\ Len(data) = 1) =>
        LET k == chan.offset
            b == data[1]
            sum == (b + k) % 256
        IN  /\ values # None => values = Ok(<<IF sum = 0 THEN 1 ELSE sum>>)
            /\ (values # None /\ b \in {ZeroByte(k), OneByte(k)}) => values = Ok(<<1>>)
            /\ (pc = "decoded" /\ origin = "encode" /\ b \in {ZeroByte(k), OneByte(k)})
                  => decoded = Ok(<<OneByte(k)>>)
            /\ (values # None /\ pc = "new") =>
                  \A b2 \in (0..255) \ {b} :
                      TTLChannel_get_ttl_values(chan, <<b2>>) = values
                          => {b, b2} = {ZeroByte(k), OneByte(k)}

\* offset 10: byte 246, which maps to 0 and is sent as 1, decoded to 247
C10_Witness ==
    /\ chan.name = "ttl" /\ chan.offset = 10 /\ data = <<246>>
    /\ values = Ok(<<1>>)
    /\ pc = "decoded" /\ decoded = Ok(<<247>>)

(***************************************************************************)
(* Decoding strings that come from outside (decode.py).                    *)
(***************************************************************************)
MaxTokens == 3
InputTokens == { <<"0">>, <<"1">>, <<"7","2">>, <<"x">>, <<"0","0","0","0","0","0","0">> }

TagOf(name) ==
    CASE name = "rd" -> TagRD [] name = "ttl" -> TagTTL [] name = "ttl-dns" -> TagDNSTTL
      [] name = "txid" -> TagTXID [] name = "labels" -> TagLABELCOUNT
      [] name = "qtype" -> TagQTYPE

DefaultLabels == [name |-> "labels", min_labels |-> 1, max_labels |-> 8,
                  label_prefix |-> <<"s","u","b">>]

NumericChannels ==
    RDChannels
    \cup TTLFamily({"ttl", "ttl-dns"}, {0}, {<<>>})
    \cup {[name |-> "ttl", offset |-> 10, marker_start |-> <<255>>, marker_end |-> <<1>>]}
    \cup {[name |-> "txid", preserve_high_bit |-> FALSE, randomize_unused |-> FALSE]}
    \cup {DefaultLabels}

\* a comma list of tokens, with or without the channel's tag, is handed to decode
SupplyList ==
    \E toks \in SeqsUpTo(InputTokens, MaxTokens) \ {<<>>}, tagged \in BOOLEAN :
        Supply((IF tagged THEN TagOf(chan.name) ELSE <<>>) \o Join(toks, <<",">>), "input")

InitInput == \E c \in NumericChannels : Constructed(c, <<>>)

NextInput ==
    \/ SupplyList
    \/ RDDecode \/ TTLDecode \/ TTLDNSDecode \/ TXIDDecode \/ LabelsDecode

SpecInput == InitInput /\ [][NextInput]_vars

\* a token that is no decimal number (for RD: has a character other than 0, 1)
BadToken(name, tok) ==
    LET t == Strip(tok)
    IN  \E i \in DOMAIN t : IF name = "rd" THEN t[i] \notin {"0", "1"} ELSE ~IsDigit(t[i])

\* C9: decoding a comma list that holds, at any position, a token that is not
\* a decimal number (for RD: not 0 or 1) fails with an error, for every numeric
\* channel and configuration.
C9_BadTokenRejected ==
    (/\ pc = "decoded" /\ origin = "input"
     /\ \E tok \in Range(Split(StripTag(encoded.val, TagOf(chan.name)), ",")) :
           BadToken(chan.name, tok))
    => ~decoded.ok

(***************************************************************************)
(* Every channel of the registry in its default configuration.             *)
(***************************************************************************)
MaxLenAll == 1
AllBytes == {0, 65, 255}

DefaultChannels ==
    { [name |-> "base32"], [name |-> "hex"], [name |-> "xor", key |-> DefaultKey],
      [name |-> "ttl", offset |-> 0, marker_start |-> <<>>, marker_end |-> <<>>],
      [name |-> "ttl-dns", offset |-> 0, marker_start |-> <<>>, marker_end |-> <<>>],
      [name |-> "qtype", types |-> DEFAULT_TYPES],
      [name |-> "case", base_label |-> <<"d","a","t","a">>, preserve_dots |-> TRUE],
      DefaultLabels,
      [name |-> "txid", preserve_high_bit |-> FALSE, randomize_unused |-> FALSE],
      [name |-> "rd", invert |-> FALSE] }

Init == \E c \in DefaultChannels, P \in SeqsUpTo(AllBytes, MaxLenAll) : Constructed(c, P)

Next ==
    \/ Base32Encode \/ Base32Decode
    \/ HexEncode \/ HexDecode
    \/ XorEncode \/ XorDecode
    \/ TXIDEncode \/ TXIDDecode \/ TXIDGetValues
    \/ TTLEncode \/ TTLDecode \/ TTLGetValues
    \/ TTLDNSEncode \/ TTLDNSDecode \/ TTLDNSGetValues
    \/ RDEncode \/ RDDecode \/ RDGetFlags
    \/ CaseEncode \/ CaseDecode
    \/ QTypeEncode \/ QTypeDecode \/ QTypeGetSequence
    \/ LabelsEncode \/ LabelsDecode \/ LabelsGetCounts

Spec == Init /\ [][Next]_vars

\* C3: for every channel in its default configuration the empty payload is
\* valid: encode(b'') succeeds, the values accessor returns the empty list and
\* decode(encode(b'')) returns b''.
C3_EmptyPayloadValid ==
    data = <<>> =>
        /\ (pc # "new" /\ origin = "encode") => encoded.ok
        /\ values # None => values = Ok(<<>>)
        /\ (pc = "decoded" /\ origin = "encode") => decoded = Ok(<<>>)

(***************************************************************************)
(* TTLChannel with integer offsets and with markers outside the TTL range. *)
(***************************************************************************)
MaxLenOffset == 2
OffsetBytes == {0, 72, 105, 246, 255}
OffsetMarkers == {<<>>, <<0>>, <<255>>, <<300>>}

InitTTLOffset ==
    \E c \in TTLFamily({"ttl"}, ByteOffsets, OffsetMarkers),
       P \in SeqsUpTo(OffsetBytes, MaxLenOffset) : Constructed(c, P)

NextTTLOffset == TTLEncode \/ TTLDecode \/ TTLGetValues

SpecTTLOffset == InitTTLOffset /\ [][NextTTLOffset]_vars

\* a TTLChannel without markers, its payload not empty and free of the byte
\* (-offset) mod 256
TTLCleanPayload ==
    /\ chan.name = "ttl" /\ chan.marker_start = <<>> /\ chan.marker_end = <<>>
    /\ data # <<>>
    /\ \A i \in DOMAIN data : data[i] # ZeroByte(chan.offset)

\* C11: for a TTLChannel with integer offset k and no markers, every non-empty
\* payload P without the byte (-k) mod 256 has wire values (P[i] + k) mod 256
\* and decode(encode(P)) == P.
C11_TTLOffsetRoundTrip ==
    TTLCleanPayload =>
        /\ (pc # "new" /\ origin = "encode") =>
              encoded = Ok(TagTTL \o JoinInts([i \in DOMAIN data |->
                                                  (data[i] + chan.offset) % 256]))
        /\ (pc = "decoded" /\ origin = "encode") => decoded = Ok(data)

\* offset 10: b"Hi" was encoded as TTL:82,115 and decoded to b"Hi"
C11_Witness ==
    /\ TTLCleanPayload /\ chan.offset = 10 /\ data = <<72, 105>>
    /\ encoded = Ok(<<"T","T","L",":","8","2",",","1","1","5">>)
    /\ pc = "decoded" /\ decoded = Ok(data)

\* C12: every value of TTLChannel.get_ttl_values(P) is an integer in 1..255,
\* for every payload and every offset, marker_start and marker_end, and encode
\* does not raise.
C12_TTLValuesInRange ==
    chan.name = "ttl" =>
        /\ (pc # "new" /\ origin = "encode") => encoded.ok
        /\ values # None =>
              /\ values.ok
              /\ \A i \in DOMAIN values.val : values.val[i] \in 1..255

(***************************************************************************)
(* Tagged and bare comma lists handed to decode, QTYPE included.           *)
(***************************************************************************)
TypeTokens == { <<"A">>, <<"m","x">>, <<" ","T","X","T">>, <<"x">>, <<>> }

\* a comma list of type names, with or without "QTYPE:", is handed to decode
SupplyTypes ==
    /\ chan.name = "qtype"
    /\ \E toks \in SeqsUpTo(TypeTokens, MaxTokens) \ {<<>>}, tagged \in BOOLEAN :
          Supply((IF tagged THEN TagQTYPE ELSE <<>>) \o Join(toks, <<",">>), "input")

InitTag ==
    \E c \in NumericChannels \cup {[name |-> "qtype", types |-> DEFAULT_TYPES]} :
        Constructed(c, <<>>)

NextTag ==
    \/ SupplyList \/ SupplyTypes
    \/ RDDecode \/ TTLDecode \/ TTLDNSDecode \/ TXIDDecode \/ LabelsDecode \/ QTypeDecode

SpecTag == InitTag /\ [][NextTag]_vars

\* channel.decode(s) of a tagged channel c
TaggedDecode(c, s) ==
    CASE c.name = "rd" -> RDFlagChannel_decode(c, s)
      [] c.name = "ttl" -> TTLChannel_decode(c, s)
      [] c.name = "ttl-dns" -> TTLDNSChannel_decode(c, s)
      [] c.name = "txid" -> TXIDChannel_decode(c, s)
      [] c.name = "labels" -> LabelCountChannel_decode(c, s)
      [] c.name = "qtype" -> QTypeChannel_decode(c, s)

\* the comma list that was handed to decode, without the tag
SuppliedBody == StripTag(encoded.val, TagOf(chan.name))

\* C13: for each tagged channel and every comma list body, decode of the
\* tagged string "<TAG>:" + body and decode of the bare body give the same
\* result: the same bytes or the same failure.
C13_TagOptional ==
    (pc = "decoded" /\ origin = "input") =>
        /\ decoded = TaggedDecode(chan, TagOf(chan.name) \o SuppliedBody)
        /\ decoded = TaggedDecode(chan, SuppliedBody)

\* the bare list "72,1" was decoded by the default TTLChannel to b"H\x01",
\* as "TTL:72,1" is
C13_Witness ==
    /\ pc = "decoded" /\ origin = "input" /\ chan.name = "ttl" /\ chan.marker_start = <<>>
    /\ encoded = Ok(<<"7","2",",","1">>)
    /\ decoded = Ok(<<72, 1>>)
    /\ TTLChannel_decode(chan, TagTTL \o encoded.val) = Ok(<<72, 1>>)

(***************************************************************************)
(* QTypeChannel and LabelCountChannel over type lists and label ranges of  *)
(* several sizes.                                                          *)
(***************************************************************************)
MaxLenBits == 2
BitFieldBytes == {0, 65, 170, 255}
TypeCounts == {2, 3, 4, 5, 7, 8, 16, 17, 256}
LabelRanges == { <<1, 8>>, <<1, 2>>, <<0, 2>>, <<1, 4>>, <<2, 8>>, <<-2, 1>>, <<1, 16>>,
                 <<3, 20>>, <<1, 256>>, <<5, 5>> }

\* a list of n distinct upper-case type names: the default ones first
TypeNames(n) ==
    [i \in 1..n |-> IF i <= Len(DEFAULT_TYPES) THEN DEFAULT_TYPES[i]
                    ELSE <<"T","Y","P","E">> \o NatToStr(i)]

QTypeChannels == {[name |-> "qtype", types |-> TypeNames(n)] : n \in TypeCounts}

LabelChannels ==
    {[name |-> "labels", min_labels |-> r[1], max_labels |-> r[2],
      label_prefix |-> <<"s","u","b">>] : r \in LabelRanges}

InitBitField ==
    \E c \in QTypeChannels \cup LabelChannels, P \in SeqsUpTo(BitFieldBytes, MaxLenBits) :
        Constructed(c, P)

NextBitField ==
    \/ QTypeEncode \/ QTypeDecode \/ QTypeGetSequence
    \/ LabelsEncode \/ LabelsDecode \/ LabelsGetCounts

SpecBitField == InitBitField /\ [][NextBitField]_vars

\* the per-query width of the channel of the state
BitWidth == IF chan.name = "qtype" THEN QTypeBits(chan) ELSE LabelBits(chan)

\* C14: a QTypeChannel or LabelCountChannel whose per-query width is 1, 2, 4
\* or 8 returns every payload from decode(encode(P)).
C14_WidthDividesEight ==
    (/\ pc = "decoded" /\ origin = "encode"
     /\ chan.name \in {"qtype", "labels"}
     /\ BitWidth \in {1, 2, 4, 8})
    => decoded = Ok(data)

\* labels 1..256, 8 bits per query: b"A\xff" went out as 66,256 and came back
C14_Witness ==
    /\ pc = "decoded" /\ origin = "encode" /\ chan.name = "labels"
    /\ chan.min_labels = 1 /\ chan.max_labels = 256
    /\ data = <<65, 255>>
    /\ encoded = Ok(TagLABELCOUNT \o <<"6","6",",","2","5","6">>)
    /\ decoded = Ok(data)

\* C15: for a list of N >= 2 type names every chunk value v of
\* get_qtype_sequence satisfies 0 <= v < N and the element emitted for it is
\* types[v]: the fallback to types[0] is not taken.
C15_QTypeIndexInRange ==
    (chan.name = "qtype" /\ Len(chan.types) >= 2 /\ values # None) =>
        LET vals == QTypeChunkValues(chan, data)
        IN  /\ values.ok
            /\ Len(values.val) = Len(vals)
            /\ \A i \in DOMAIN vals :
                  /\ 0 <= vals[i] /\ vals[i] < Len(chan.types)
                  /\ values.val[i] = chan.types[vals[i] + 1]

\* five types, 2 bits per query: b"\xff" gives four chunks of value 3, each
\* sent as types[3] = MX
C15_Witness ==
    /\ chan.name = "qtype" /\ Len(chan.types) = 5 /\ data = <<255>>
    /\ values = Ok(<< <<"M","X">>, <<"M","X">>, <<"M","X">>, <<"M","X">> >>)

\* C16: bits_per_query is floor(log2(max_labels - min_labels + 1)), 3 for the
\* range 1..8, and every label count of get_label_counts is min_labels plus
\* its chunk value and lies in min_labels..max_labels, the clamp changing
\* nothing.
C16_LabelWidthAndRange ==
    chan.name = "labels" =>
        LET R == chan.max_labels - chan.min_labels + 1
            w == LabelBits(chan)
            vals == LabelChunkValues(chan, data)
        IN  /\ 2^w <= R /\ R < 2^(w + 1)
            /\ (chan.min_labels = 1 /\ chan.max_labels = 8) => w = 3
            /\ (values # None /\ values.ok) =>
                  /\ Len(values.val) = Len(vals)
                  /\ \A i \in DOMAIN vals :
                        /\ values.val[i] = chan.min_labels + vals[i]
                        /\ chan.min_labels <= values.val[i]
                        /\ values.val[i] <= chan.max_labels

\* range 1..8: b"\x00" has the chunks 000, 000, 00(0) and the label counts 1,1,1
C16_Witness ==
    /\ chan.name = "labels" /\ chan.min_labels = 1 /\ chan.max_labels = 8
    /\ data = <<0>> /\ values = Ok(<<1, 1, 1>>)

(***************************************************************************)
(* The wire values of RDFlagChannel and TXIDChannel.                       *)
(***************************************************************************)
\* bit j (0 = most significant) of byte b
BitOf(b, j) == (b \div 2^(7 - j)) % 2

\* the RD flag the claim gives query n (from 1) of payload P
RDFlagOf(c, P, n) ==
    LET bit == BitOf(P[((n - 1) \div 8) + 1], (n - 1) % 8)
    IN  IF c.invert THEN bit = 0 ELSE bit = 1

\* C17: get_rd_flags(P) has 8*len(P) booleans, flag 8*i+j being True iff bit j
\* (most significant first) of P[i] is 1, with invert=True iff it is 0, and
\* encode(P) is "RD:" followed by the same bits as comma-separated 0/1.
C17_RDFlagMapping ==
    chan.name = "rd" =>
        LET flags == [n \in 1..(8 * Len(data)) |-> RDFlagOf(chan, data, n)]
        IN  /\ values # None => values = Ok(flags)
            /\ (pc # "new" /\ origin = "encode") =>
                  encoded = Ok(TagRD \o Join([n \in DOMAIN flags |->
                                                IF flags[n] THEN <<"1">> ELSE <<"0">>],
                                             <<",">>))

\* b"A" = 01000001: the flags F,T,F,F,F,F,F,T and the string RD:0,1,0,0,0,0,0,1
C17_Witness ==
    /\ chan.name = "rd" /\ ~chan.invert /\ data = <<65>>
    /\ values = Ok(<<FALSE, TRUE, FALSE, FALSE, FALSE, FALSE, FALSE, TRUE>>)
    /\ encoded = Ok(<<"R","D",":","0",",","1",",","0",",","0",",","0",",","0",",","0",",","1">>)

\* get_txid_values(P) has ceil(len(P)/2) values, each the big-endian chunk of
\* the zero-padded payload, with bit 15 cleared under preserve_high_bit when
\* masked is set
TXIDValuesAre(masked) ==
    /\ values.ok
    /\ Len(values.val) = (Len(data) + 1) \div 2
    /\ \A k \in 0..(Len(values.val) - 1) :
          /\ values.val[k + 1] =
                IF masked /\ chan.preserve_high_bit
                THEN TXIDChunk(TXIDPadded(data), k) % 32768
                ELSE TXIDChunk(TXIDPadded(data), k)
          /\ values.val[k + 1] \in 0..65535
          /\ chan.preserve_high_bit => values.val[k + 1] \in 0..32767

\* C18 as stated: value k of get_txid_values(P) equals 256*P[2k] + P[2k+1]
\* whatever preserve_high_bit is, and lies in 0..65535, in 0..32767 when
\* preserve_high_bit=True.
C18_TXIDValuesBigEndian ==
    (chan.name = "txid" /\ values # None) => TXIDValuesAre(FALSE)

\* C18 amended: get_txid_values(P) has ceil(len(P)/2) values; value k equals
\* 256*P[2k] + P[2k+1], a missing final byte taken as 0, when
\* preserve_high_bit=False and that number AND 0x7FFF when it is True; every
\* value is in 0..65535, and in 0..32767 when preserve_high_bit=True.
C18_TXIDValuesMasked ==
    (chan.name = "txid" /\ values # None) => TXIDValuesAre(TRUE)

\* preserve_high_bit=True: b"\xff\x01\x80" gives 0xFF01 & 0x7FFF = 32513 and
\* 0x8000 & 0x7FFF = 0
C18_Witness ==
    /\ chan.name = "txid" /\ chan.preserve_high_bit
    /\ data = <<255, 1, 128>>
    /\ values = Ok(<<32513, 0>>)

(***************************************************************************)
(* Calling encode and the values accessor a second time on one channel.    *)
(***************************************************************************)
MaxLenRepeat == 3
RepeatBytes == {0, 65, 255}

RepeatChannels ==
    DefaultChannels \cup TXIDChannels \cup RDChannels
    \cup TTLFamily({"ttl", "ttl-dns"}, {10}, {<<>>})

\* channel.encode(P) of the channel c
ChannelEncode(c, P) ==
    CASE c.name = "base32" -> Ok(Base32Channel_encode(P))
      [] c.name = "hex" -> Ok(HexChannel_encode(P))
      [] c.name = "xor" -> Ok(XORBase32Channel_encode(c.key, P))
      [] c.name = "txid" -> Ok(TXIDChannel_encode(c, P))
      [] c.name = "ttl" -> Ok(TTLChannel_encode(c, P))
      [] c.name = "ttl-dns" -> Ok(TTLDNSChannel_encode(c, P))
      [] c.name = "rd" -> Ok(RDFlagChannel_encode(c, P))
      [] c.name = "case" -> CaseToggleChannel_encode(c, P)
      [] c.name = "qtype" -> QTypeChannel_encode(c, P)
      [] c.name = "labels" -> LabelCountChannel_encode(c, P)

\* the channels that have a values accessor
AccessorChannels == {"txid", "ttl", "ttl-dns", "rd", "qtype", "labels"}

\* the values accessor of the channel c applied to P
ChannelValues(c, P) ==
    CASE c.name = "txid" -> TXIDChannel_get_txid_values(c, P)
      [] c.name = "ttl" -> TTLChannel_get_ttl_values(c, P)
      [] c.name = "ttl-dns" -> TTLDNSChannel_get_ttl_values(c, P)
      [] c.name = "rd" -> RDFlagChannel_get_rd_flags(c, P)
      [] c.name = "qtype" -> QTypeChannel_get_qtype_sequence(c, P)
      [] c.name = "labels" -> LabelCountChannel_get_label_counts(c, P)

\* a second encoded = channel.encode(data) on the same channel object
EncodeAgain ==
    /\ pc = "encoded" /\ origin = "encode"
    /\ encoded' = ChannelEncode(chan, data)
    /\ pc' = "again"
    /\ UNCHANGED <<chan, data, origin, decoded, values, cli, net>>

\* a second call of the values accessor on the same channel object
ValuesAgain ==
    /\ chan.name \in AccessorChannels
    /\ pc = "again" /\ values # None
    /\ values' = ChannelValues(chan, data)
    /\ pc' = "again2"
    /\ UNCHANGED <<chan, data, encoded, origin, decoded, cli, net>>

InitRepeat ==
    \E c \in RepeatChannels, P \in SeqsUpTo(RepeatBytes, MaxLenRepeat) : Constructed(c, P)

NextRepeat ==
    \/ Base32Encode \/ HexEncode \/ XorEncode \/ CaseEncode
    \/ TXIDEncode \/ TXIDGetValues
    \/ TTLEncode \/ TTLGetValues
    \/ TTLDNSEncode \/ TTLDNSGetValues
    \/ RDEncode \/ RDGetFlags
    \/ QTypeEncode \/ QTypeGetSequence
    \/ LabelsEncode \/ LabelsGetCounts
    \/ EncodeAgain \/ ValuesAgain

SpecRepeat == InitRepeat /\ [][NextRepeat]_vars

\* the payload bits one wire value of the channel c carries
ChunkBits(c) ==
    CASE c.name = "rd" -> 1
      [] c.name \in {"ttl", "ttl-dns"} -> 8
      [] c.name = "txid" -> 16
      [] c.name = "qtype" -> QTypeBits(c)
      [] c.name = "labels" -> LabelBits(c)

IsPrefix(a, b) == Len(a) <= Len(b) /\ SubSeq(b, 1, Len(a)) = a

\* the values of every prefix of the payload that ends on a chunk boundary
\* are the first values of the whole payload, one per chunk
PrefixStable ==
    (chan.name \in AccessorChannels /\ values # None /\ values.ok) =>
        \A k \in 1..Len(data) :
            (8 * k) % ChunkBits(chan) = 0 =>
                LET q == ChannelValues(chan, SubSeq(data, 1, k))
                IN  /\ q.ok
                    /\ Len(q.val) = (8 * k) \div ChunkBits(chan)
                    /\ IsPrefix(q.val, values.val)

XorOf(a, b) ==
    LET bit(j) == (((a \div 2^j) % 2) + ((b \div 2^j) % 2)) % 2
    IN  bit(0) + 2 * bit(1) + 4 * bit(2) + 8 * bit(3)
        + 16 * bit(4) + 32 * bit(5) + 64 * bit(6) + 128 * bit(7)

\* C20: XORBase32Channel.encode(P) is Base32Channel.encode(X) with
\* X[i] = P[i] XOR key[i mod len(key)]; with the empty key X is P, the output
\* being that of the plain Base32 channel.
C20_XorThenBase32 ==
    (chan.name = "xor" /\ pc # "new" /\ origin = "encode") =>
        IF chan.key = <<>>
        THEN encoded = Ok(Base32Channel_encode(data))
        ELSE encoded = Ok(Base32Channel_encode(
                 [i \in DOMAIN data |->
                     XorOf(data[i], chan.key[((i - 1) % Len(chan.key)) + 1])]))

\* key ff 01: b"\x00Z\xff" is XORed to ff 5b 00 and encoded as 75nqa
C20_Witness ==
    /\ chan.name = "xor" /\ chan.key = <<255, 1>>
    /\ data = <<0, 90, 255>>
    /\ encoded = Ok(<<"7","5","n","q","a">>)
    /\ encoded = Ok(Base32Channel_encode(<<255, 91, 0>>))

(***************************************************************************)
(* The channel registry of the command-line scripts.                       *)
(***************************************************************************)
MaxLenRegistry == 1
RegistryBytes == {0, 65, 255}

\* the ten channel names and the class each one stands for
RegistryKeys ==
    {"base32", "hex", "xor", "ttl", "ttl-dns", "qtype", "case", "labels", "txid", "rd"}

ClassOf(key) ==
    CASE key = "base32" -> "Base32Channel" [] key = "hex" -> "HexChannel"
      [] key = "xor" -> "XORBase32Channel" [] key = "ttl" -> "TTLChannel"
      [] key = "ttl-dns" -> "TTLDNSChannel" [] key = "qtype" -> "QTypeChannel"
      [] key = "case" -> "CaseToggleChannel" [] key = "labels" -> "LabelCountChannel"
      [] key = "txid" -> "TXIDChannel" [] key = "rd" -> "RDFlagChannel"
      [] key = "base32-exercise" -> "Base32ChannelExercise"

\* CHANNELS of Agent/src/main.py
CHANNELS_Agent == [k \in RegistryKeys |-> ClassOf(k)]

\* CHANNELS of src/main.py
CHANNELS_Main == [k \in {"base32", "hex", "xor", "ttl"} |-> ClassOf(k)]

\* CHANNELS of src/decode.py
CHANNELS_Decode == [k \in RegistryKeys \cup {"base32-exercise"} |-> ClassOf(k)]

Scripts == {"Agent/main.py", "main.py", "decode.py"}

CHANNELS(script) ==
    CASE script = "Agent/main.py" -> CHANNELS_Agent
      [] script = "main.py" -> CHANNELS_Main
      [] script = "decode.py" -> CHANNELS_Decode

\* channel_class(config) with config = None: the object of the class with
\* its default configuration
NewChannel(class) ==
    IF class = "Base32ChannelExercise" THEN [name |-> "base32-exercise"]
    ELSE CHOOSE c \in DefaultChannels : ClassOf(c.name) = class

\* no channel object exists
NoChannel == [name |-> "none"]

\* channel.decode(s) of any channel c of the registry
ChannelDecode(c, s) ==
    CASE c.name = "base32" -> Base32Channel_decode(s)
      [] c.name = "hex" -> HexChannel_decode(s)
      [] c.name = "xor" -> XORBase32Channel_decode(c.key, s)
      [] c.name = "case" -> CaseToggleChannel_decode(c, s)
      [] OTHER -> TaggedDecode(c, s)

\* the names a user may type after --channel
RequestedNames == RegistryKeys \cup {"base32-exercise", "dns", "TTL", "none"}

\* the strings a user may type after --encoded
RegistryInputs == { <<"0">>, <<"7","2">>, <<"x">>, <<"n","b","a","q">> }

\* a script was started with a channel name and has not looked it up yet
Started(script, name, P, s) ==
    /\ cli = [script |-> script, name |-> name, status |-> "start"]
    /\ chan = NoChannel
    /\ data = P
    /\ encoded = s
    /\ origin = IF s = None THEN "none" ELSE "input"
    /\ decoded = None
    /\ values = None
    /\ pc = "cli"
    /\ net = NoNet

InitRegistry ==
    \/ \E script \in {"Agent/main.py", "main.py"}, name \in RequestedNames,
          P \in SeqsUpTo(RegistryBytes, MaxLenRegistry) : Started(script, name, P, None)
    \/ \E name \in RequestedNames, s \in RegistryInputs :
          Started("decode.py", name, <<>>, Ok(s))

\* create_channel(channel_name) of either main.py
CreateChannel ==
    /\ cli.script \in {"Agent/main.py", "main.py"} /\ cli.status = "start"
    /\ IF cli.name \notin DOMAIN CHANNELS(cli.script)
       THEN /\ cli' = [cli EXCEPT !.status = "unknown"]
            /\ UNCHANGED <<chan, pc>>
       ELSE /\ chan' = NewChannel(CHANNELS(cli.script)[cli.name])
            /\ cli' = [cli EXCEPT !.status = "created"]
            /\ pc' = "new"
    /\ UNCHANGED <<data, encoded, origin, decoded, values, net>>

\* decode_message(channel_name, encoded_data) of decode.py; what the decode
\* of Base32ChannelExercise does is not fixed by the sources
DecodeMessage ==
    /\ cli.script = "decode.py" /\ cli.status = "start"
    /\ IF cli.name \notin DOMAIN CHANNELS(cli.script)
       THEN /\ cli' = [cli EXCEPT !.status = "unknown"]
            /\ UNCHANGED <<chan, decoded, pc>>
       ELSE /\ chan' = NewChannel(CHANNELS(cli.script)[cli.name])
            /\ IF cli.name = "base32-exercise"
               THEN decoded' \in {Ok(<<>>), Ok(<<65>>), Err("Exception")}
               ELSE decoded' = ChannelDecode(chan', encoded.val)
            /\ cli' = [cli EXCEPT !.status = IF decoded'.ok THEN "done" ELSE "decode_error"]
            /\ pc' = "decoded"
    /\ UNCHANGED <<data, encoded, origin, values, net>>

NextRegistry == CreateChannel \/ DecodeMessage

SpecRegistry == InitRegistry /\ [][NextRegistry]_vars

\* C21: in every script of the command-line layer each of the ten names
\* base32, hex, xor, ttl, ttl-dns, qtype, case, labels, txid, rd selects its
\* channel class, so a run started with one of them constructs that channel;
\* a run started with a name outside the script's table exits without
\* constructing a channel.
C21_RegistryComplete ==
    cli.status # "start" =>
       /\ cli.name \in RegistryKeys =>
             /\ cli.status # "unknown"
             /\ chan = NewChannel(ClassOf(cli.name))
       /\ cli.name \notin DOMAIN CHANNELS(cli.script) =>
             /\ cli.status = "unknown"
             /\ chan = NoChannel

(***************************************************************************)
(* Bit-field channels of every width from 1 to 8.                          *)
(***************************************************************************)
MaxLenPad == 2
PadBytes == {0, 65, 170, 255}
\* numbers of type names with the widths 1, 2, 3, 3, 4, 5, 5, 6, 6, 7, 7, 8
PadTypeCounts == {2, 4, 8, 9, 16, 32, 47, 64, 100, 128, 255, 256}
\* label ranges with the same widths
PadLabelRanges == { <<1, 2>>, <<1, 4>>, <<1, 8>>, <<0, 9>>, <<1, 16>>, <<1, 32>>,
                    <<-5, 40>>, <<1, 64>>, <<3, 102>>, <<1, 128>>, <<0, 254>>,
                    <<1, 256>> }

PadChannels ==
    {[name |-> "qtype", types |-> TypeNames(n)] : n \in PadTypeCounts}
    \cup {[name |-> "labels", min_labels |-> r[1], max_labels |-> r[2],
           label_prefix |-> <<"s","u","b">>] : r \in PadLabelRanges}

InitPadding ==
    \E c \in PadChannels, P \in SeqsUpTo(PadBytes, MaxLenPad) : Constructed(c, P)

NextPadding ==
    \/ QTypeEncode \/ QTypeDecode \/ QTypeGetSequence
    \/ LabelsEncode \/ LabelsDecode \/ LabelsGetCounts

SpecPadding == InitPadding /\ [][NextPadding]_vars

\* the number of bits the encoded value sequence of the state carries
WireBits == BitWidth * Len(ChunkValues(BytesToBits(data), BitWidth))

\* C22: for a QTypeChannel or LabelCountChannel of any per-query width w in
\* 1..8, also 3, 5, 6 and 7, the value sequence carries fewer than w bits
\* more than the payload has, so fewer than 8, and decode drops them:
\* decode(encode(P)) = P and the lengths agree.
C22_PaddingDropped ==
    (/\ pc = "decoded" /\ origin = "encode"
     /\ chan.name \in {"qtype", "labels"}
     /\ BitWidth \in 1..8)
    => /\ WireBits - 8 * Len(data) \in 0..(BitWidth - 1)
       /\ WireBits - 8 * Len(data) < 8
       /\ decoded = Ok(data)
       /\ Len(decoded.val) = Len(data)

\* nine types, 3 bits per query: b"\xff" has the chunks 111, 111, 11(0), went
\* out as SOA,SOA,PTR and came back as one byte
C22_Witness ==
    /\ pc = "decoded" /\ origin = "encode"
    /\ chan.name = "qtype" /\ Len(chan.types) = 9 /\ data = <<255>>
    /\ encoded = Ok(TagQTYPE \o <<"S","O","A",",","S","O","A",",","P","T","R">>)
    /\ decoded = Ok(<<255>>)

(***************************************************************************)
(* TTLDNSChannel with offsets around the wrap of the 16-bit TTL.           *)
(***************************************************************************)
MaxLenSeconds == 2
SecondsBytes == {0, 1, 3, 72, 255}
SecondsOffsets == {-65536, -255, -3, 0, 1, 10, 256, 300, 65280, 65281, 65535, 65536}
SecondsMarkers == {<<>>, <<300>>}

InitTTLSeconds ==
    \E c \in TTLFamily({"ttl-dns"}, SecondsOffsets, SecondsMarkers),
       P \in SeqsUpTo(SecondsBytes, MaxLenSeconds) : Constructed(c, P)

NextTTLSeconds == TTLDNSEncode \/ TTLDNSDecode \/ TTLDNSGetValues

SpecTTLSeconds == InitTTLSeconds /\ [][NextTTLSeconds]_vars

\* some byte of the payload added to the offset k is 0 modulo 65536
WrapsToZero(k, P) == \E i \in DOMAIN P : (P[i] + k) % 65536 = 0

\* C23: a TTLDNSChannel with any integer offset k and no markers returns
\* from decode(encode(P)) every payload P that has no byte b with
\* (b + k) mod 65536 = 0, although decode reduces modulo 256; for an offset
\* in 1..65280 that is every payload; every encoded data value is in 1..65535.
C23_SecondsRoundTrip ==
    (chan.name = "ttl-dns" /\ chan.marker_start = <<>> /\ chan.marker_end = <<>>) =>
        /\ (pc = "decoded" /\ origin = "encode" /\ ~WrapsToZero(chan.offset, data))
              => decoded = Ok(data)
        /\ (pc = "decoded" /\ origin = "encode" /\ chan.offset \in 1..65280)
              => decoded = Ok(data)
        /\ values # None =>
              /\ values.ok
              /\ Len(values.val) = Len(data)
              /\ \A i \in DOMAIN values.val : values.val[i] \in 1..65535

\* offset 65280: b"\xffH" went out as DNS-TTL:65535,65352 and came back
C23_Witness ==
    /\ chan.name = "ttl-dns" /\ chan.marker_start = <<>> /\ chan.marker_end = <<>>
    /\ chan.offset = 65280 /\ data = <<255, 72>>
    /\ pc = "decoded" /\ origin = "encode"
    /\ encoded = Ok(TagDNSTTL \o <<"6","5","5","3","5",",","6","5","3","5","2">>)
    /\ decoded = Ok(data)

(***************************************************************************)
(* LabelCountChannel.decode on label counts that come from outside.        *)
(***************************************************************************)
MaxCounts == 3
CountTokens == { <<"0">>, <<"1">>, <<"3">>, <<"5">>, <<"8">>, <<"2","0">>, <<"-","3">> }

\* a comma list of label counts, with or without the tag, is handed to decode
SupplyCounts ==
    \E toks \in SeqsUpTo(CountTokens, MaxCounts) \ {<<>>}, tagged \in BOOLEAN :
        Supply((IF tagged THEN TagLABELCOUNT ELSE <<>>) \o Join(toks, <<",">>), "input")

InitFraming == \E c \in LabelChannels : Constructed(c, <<>>)

NextFraming == SupplyCounts \/ LabelsDecode

SpecFraming == InitFraming /\ [][NextFraming]_vars

\* the label counts of the string handed to decode
SuppliedCounts == ParseFiltered(StripTag(encoded.val, TagLABELCOUNT)).val

\* max(0, min(c - min_labels, R - 1))
ClampCount(cfg, c) == Max(0, Min(c - cfg.min_labels, LabelNumValues(cfg) - 1))

\* C24: for every range and every list of label counts, inside the range or
\* not, the bit stream decode builds has exactly bits_per_query bits per
\* count: count k fills the positions k*w .. (k+1)*w-1 with the binary form
\* of clamp(c - min_labels, 0, R-1), and the bytes returned are cut from
\* that stream.
C24_LabelFraming ==
    (pc = "decoded" /\ origin = "input" /\ chan.name = "labels") =>
        LET w == LabelBits(chan)
            bits == LabelDecodeBits(chan, SuppliedCounts)
        IN  /\ Len(bits) = w * Len(SuppliedCounts)
            /\ \A k \in DOMAIN SuppliedCounts :
                  /\ k * w <= Len(bits)
                  /\ BitsValue(SubSeq(bits, (k - 1) * w + 1, k * w), 0)
                        = ClampCount(chan, SuppliedCounts[k])
            /\ decoded = BitsToBytes(bits)

(***************************************************************************)
(* The number of wire values each multi-query channel emits.               *)
(***************************************************************************)
MaxLenCount == 2
CountBytes == {0, 65, 255}
CountMarkers == {<<>>, <<1>>, <<255>>}

CountChannels ==
    PadChannels \cup TXIDChannels \cup RDChannels
    \cup TTLFamily({"ttl", "ttl-dns"}, {0, 10}, CountMarkers)

InitCount ==
    \E c \in CountChannels, P \in SeqsUpTo(CountBytes, MaxLenCount) : Constructed(c, P)

NextCount ==
    \/ TXIDEncode \/ TXIDGetValues
    \/ TTLEncode \/ TTLGetValues
    \/ TTLDNSEncode \/ TTLDNSGetValues
    \/ RDEncode \/ RDGetFlags
    \/ QTypeEncode \/ QTypeGetSequence
    \/ LabelsEncode \/ LabelsGetCounts

SpecCount == InitCount /\ [][NextCount]_vars

\* the payload bits one wire value of the channel c carries
WidthOf(c) ==
    CASE c.name = "rd" -> 1
      [] c.name \in {"ttl", "ttl-dns"} -> 8
      [] c.name = "txid" -> 16
      [] c.name = "qtype" -> QTypeBits(c)
      [] c.name = "labels" -> LabelBits(c)

\* the markers the channel c is configured with
MarkerCount(c) ==
    IF c.name \in {"ttl", "ttl-dns"} THEN Len(c.marker_start) + Len(c.marker_end) ELSE 0

\* ceil(8 * len(P) / w) data values and one value per marker
ExpectedCount(c, P) == (8 * Len(P) + WidthOf(c) - 1) \div WidthOf(c) + MarkerCount(c)

\* the values the encoded string of the state lists after its tag
EncodedTokens == NonBlank(Split(StripTag(encoded.val, TagOf(chan.name)), ","))

\* the channels whose wire value is the chunk itself
PlainChunks(c) ==
    \/ c.name \in {"qtype", "labels"}
    \/ c.name = "txid" /\ ~c.preserve_high_bit
    \/ c.name = "rd" /\ ~c.invert

\* the chunk of payload bits the token tok of channel c stands for
TokenBits(c, tok) ==
    CASE c.name = "rd" -> tok
      [] c.name = "txid" -> BitsOfNat(ParseInt(tok, 10).val, 16)
      [] c.name = "qtype" -> BitsOfNat(TypeToValue(c, tok), QTypeBits(c))
      [] c.name = "labels" -> BitsOfNat(ParseInt(tok, 10).val - c.min_labels, LabelBits(c))

RECURSIVE TokensBits(_, _)
TokensBits(c, toks) ==
    IF toks = <<>> THEN <<>> ELSE TokenBits(c, toks[1]) \o TokensBits(c, Tail(toks))

MaxLenSend == 2
SendBytes == {72, 255}
SendDelays == {0, 1}
SendModes == {"print", "send", "both", "dump"}

SendChannels ==
    { [name |-> "ttl", offset |-> 0, marker_start |-> <<>>, marker_end |-> <<>>],
      [name |-> "ttl", offset |-> 0, marker_start |-> <<0>>, marker_end |-> <<300>>],
      [name |-> "ttl", offset |-> 10, marker_start |-> <<255>>, marker_end |-> <<>>],
      [name |-> "ttl-dns", offset |-> 250, marker_start |-> <<>>, marker_end |-> <<>>],
      [name |-> "qtype", types |-> DEFAULT_TYPES],
      [name |-> "txid", preserve_high_bit |-> FALSE, randomize_unused |-> FALSE] }

\* f"{base_subdomain}{i}.{domain}" with the defaults "query" and "example.com"
QueryName(i) ==
    <<"q","u","e","r","y">> \o IntToStr(i)
        \o <<".","e","x","a","m","p","l","e",".","c","o","m">>

\* the values attached to the queries in reverse order
QueryList_Reversed(vals, packet) ==
    [i \in DOMAIN vals |->
        [name |-> QueryName(i), value |-> vals[Len(vals) + 1 - i], packet |-> packet]]

\* one (query, value) tuple per value, numbered from 1; packet tells whether
\* the first element is a Scapy packet or the query name
QueryList(vals, packet) ==
    [i \in DOMAIN vals |-> [name |-> QueryName(i), value |-> vals[i], packet |-> packet]]

\* DNSPacketBuilder.build_ttl_queries(data), Scapy importable or not
BuildTTLQueries ==
    /\ pc = "new" /\ net.fn = "none"
    /\ \E scapy \in BOOLEAN :
          net' = IF chan.name \notin {"ttl", "ttl-dns"}
                 THEN [net EXCEPT !.fn = "build_ttl_queries", !.at = "raised",
                                  !.result = Err("ValueError")]
                 ELSE IF ~ChannelValues(chan, data).ok
                 THEN [net EXCEPT !.fn = "build_ttl_queries", !.at = "raised",
                                  !.result = ChannelValues(chan, data)]
                 ELSE [net EXCEPT !.fn = "build_ttl_queries", !.at = "built",
                                  !.scapy = scapy,
                                  !.queue = QueryList(ChannelValues(chan, data).val, scapy)]
    /\ UNCHANGED <<chan, data, encoded, origin, decoded, values, pc, cli>>

\* main(): one dns.message query per element of get_qtype_sequence or
\* get_txid_values, named query<i>.<domain>
BuildValueQueries ==
    /\ pc = "new" /\ net.fn = "none"
    /\ chan.name \in {"qtype", "txid"}
    /\ ChannelValues(chan, data).ok
    /\ net' = [net EXCEPT !.fn = "main", !.at = "built",
                          !.queue = QueryList(ChannelValues(chan, data).val, FALSE)]
    /\ UNCHANGED <<chan, data, encoded, origin, decoded, values, pc, cli>>

\* one entry of the log
Attempt(n, out) ==
    [ev |-> "attempt", q |-> n.i + 1, value |-> n.queue[n.i + 1].value, out |-> out]

Sleep(n) == [ev |-> "sleep", q |-> n.i + 1, value |-> n.delay, out |-> "none"]

\* a sleep after every query, the last one too
Pause_Always(n, more) == <<Sleep(n)>>

\* if <another query follows> and delay > 0: time.sleep(delay)
Pause(n, more) == IF more THEN <<Sleep(n)>> ELSE <<>>

\* sr1 returned a packet: the response to the query; otherwise None
ResponseTo(n, out) == IF out = "reply" THEN Ok(n.queue[n.i + 1].name) ELSE None

\* the sender function fn is entered with the list that was built
Entered(fn, delay, wait, mode, root) ==
    [net EXCEPT !.fn = fn, !.at = "loop", !.i = 0, !.responses = <<>>, !.log = <<>>,
                !.delay = delay, !.wait = wait, !.mode = mode, !.root = root]

\* the function returns r
Returned(n, r) == [n EXCEPT !.at = "returned", !.result = r]

\* the end of one pass through a loop body: the entries appended to the log
\* and to responses, then the next pass or, after the last query, the return
Passed(n, entries, resps, r) ==
    IF n.i + 1 = Len(n.queue)
    THEN [n EXCEPT !.i = @ + 1, !.log = @ \o entries, !.responses = @ \o resps,
                   !.at = "returned", !.result = r]
    ELSE [n EXCEPT !.i = @ + 1, !.log = @ \o entries, !.responses = @ \o resps]

\* RawDNSSender.send_ttl_sequence(queries_with_ttl, delay, wait_for_responses)
\* is called with a list of (query_name, ttl_value) tuples
RawStart ==
    /\ net.at = "built" /\ net.fn = "build_ttl_queries"
    /\ \A k \in DOMAIN net.queue : ~net.queue[k].packet
    /\ \E delay \in SendDelays, wait \in BOOLEAN :
          net' = IF net.queue = <<>>
                 THEN Returned(Entered("send_ttl_sequence", delay, wait, "none", TRUE),
                               Ok(<<>>))
                 ELSE Entered("send_ttl_sequence", delay, wait, "none", TRUE)
    /\ UNCHANGED <<chan, data, encoded, origin, decoded, values, pc, cli>>

\* a TTL of 0 let through
RawOutcomes_ZeroAllowed(q, wait) ==
    IF ~(0 <= q.value /\ q.value <= 255) THEN {"ValueError"}
    ELSE (IF wait THEN {"reply", "timeout"} ELSE {"sent"})
            \cup {"PermissionError", "RuntimeError"}

\* what send_ttl_query can do with the query q: build_dns_packet raises
\* ValueError for a TTL outside 1..255; send_packet returns sr1's packet or
\* None, or raises PermissionError or RuntimeError
RawOutcomes(q, wait) ==
    IF ~(1 <= q.value /\ q.value <= 255) THEN {"ValueError"}
    ELSE (IF wait THEN {"reply", "timeout"} ELSE {"sent"})
            \cup {"PermissionError", "RuntimeError"}

\* a failed send leaving no entry in responses
RawSlot_DropFailed(n, out) ==
    IF out \in {"ValueError", "PermissionError", "RuntimeError"} THEN <<>>
    ELSE <<ResponseTo(n, out)>>

\* responses.append(response), or responses.append(None) in the handler
RawSlot(n, out) == <<ResponseTo(n, out)>>

\* one pass of the loop of send_ttl_sequence: the attempt, its slot in
\* responses, the sleep if another query follows
RawIterate ==
    /\ net.fn = "send_ttl_sequence" /\ net.at = "loop"
    /\ \E out \in RawOutcomes(net.queue[net.i + 1], net.wait) :
          net' = Passed(net,
                        <<Attempt(net, out)>>
                           \o Pause(net, net.i < Len(net.queue) - 1 /\ net.delay > 0),
                        RawSlot(net, out),
                        Ok(net.responses \o RawSlot(net, out)))
    /\ UNCHANGED <<chan, data, encoded, origin, decoded, values, pc, cli>>

\* DNSSender.send_ttl_queries(queries_with_ttl, delay, wait_for_response);
\* avail is SCAPY_AVAILABLE of dns_sender, root is os.geteuid() == 0
SenderStart ==
    /\ net.at = "built" /\ net.fn = "build_ttl_queries"
    /\ \E delay \in SendDelays, wait \in BOOLEAN, root \in BOOLEAN, avail \in BOOLEAN :
          /\ (\E k \in DOMAIN net.queue : net.queue[k].packet) => avail
          /\ net' = IF avail /\ Len(net.queue) > 0 /\ net.queue[1].packet /\ root
                    THEN Entered("send_ttl_queries", delay, wait, "none", root)
                    ELSE Returned(Entered("send_ttl_queries", delay, wait, "none", root),
                                  Ok(<<>>))
    /\ UNCHANGED <<chan, data, encoded, origin, decoded, values, pc, cli>>

\* what sr1 / send can do with the packet of the query q: a TTL that does not
\* fit the one-byte IP field cannot be assembled
SenderOutcomes(q, wait) ==
    IF ~(0 <= q.value /\ q.value <= 255) THEN {"Exception"}
    ELSE (IF wait THEN {"reply", "timeout"} ELSE {"sent"})
            \cup {"PermissionError", "Exception"}

\* a None appended for the query that was refused
SenderStop_AppendNone(n, out) ==
    Returned([n EXCEPT !.log = Append(@, Attempt(n, out))], Ok(Append(n.responses, None)))

\* except PermissionError: return responses
SenderStop(n, out) ==
    Returned([n EXCEPT !.log = Append(@, Attempt(n, out))], Ok(n.responses))

\* one pass of the loop of send_ttl_queries: PermissionError returns the
\* responses collected so far, any other exception appends None
SenderIterate ==
    /\ net.fn = "send_ttl_queries" /\ net.at = "loop"
    /\ \E out \in SenderOutcomes(net.queue[net.i + 1], net.wait) :
          net' = IF out = "PermissionError"
                 THEN SenderStop(net, out)
                 ELSE Passed(net,
                             <<Attempt(net, out)>>
                                \o Pause(net, net.i + 1 < Len(net.queue) /\ net.delay > 0),
                             <<ResponseTo(net, out)>>,
                             Ok(Append(net.responses, ResponseTo(net, out))))
    /\ UNCHANGED <<chan, data, encoded, origin, decoded, values, pc, cli>>

\* what process_queries returns: responses in the modes send and both
ProcessResult(mode, responses) ==
    IF mode \in {"send", "both"} THEN Ok(responses) ELSE Ok("None")

\* DNSSender.process_queries(queries, mode, delay)
ProcessStart ==
    /\ net.at = "built" /\ net.fn = "main"
    /\ \E delay \in SendDelays, mode \in SendModes :
          net' = IF net.queue = <<>>
                 THEN Returned(Entered("process_queries", delay, FALSE, mode, FALSE),
                               ProcessResult(mode, <<>>))
                 ELSE Entered("process_queries", delay, FALSE, mode, FALSE)
    /\ UNCHANGED <<chan, data, encoded, origin, decoded, values, pc, cli>>

\* send_query returns the response or, after any failure, None
ProcessOutcomes(mode) ==
    CASE mode = "print" -> {"printed"}
      [] mode \in {"send", "both"} -> {"reply", "timeout"}
      [] OTHER -> {"unknown mode"}

\* one pass of the loop of process_queries; an unknown mode continues with
\* the next query at once
ProcessIterate ==
    /\ net.fn = "process_queries" /\ net.at = "loop"
    /\ \E out \in ProcessOutcomes(net.mode) :
          net' = IF out = "unknown mode"
                 THEN Passed(net, <<>>, <<>>, ProcessResult(net.mode, net.responses))
                 ELSE IF out = "printed"
                 THEN Passed(net,
                             <<Attempt(net, out)>>
                                \o Pause(net, net.delay > 0 /\ net.i + 1 < Len(net.queue)),
                             <<>>, ProcessResult(net.mode, net.responses))
                 ELSE Passed(net,
                             <<Attempt(net, out)>>
                                \o Pause(net, net.delay > 0 /\ net.i + 1 < Len(net.queue)),
                             <<ResponseTo(net, out)>>,
                             ProcessResult(net.mode,
                                           Append(net.responses, ResponseTo(net, out))))
    /\ UNCHANGED <<chan, data, encoded, origin, decoded, values, pc, cli>>

InitTransport ==
    \E c \in SendChannels, P \in SeqsUpTo(SendBytes, MaxLenSend) : Constructed(c, P)

NextRaw ==
    \/ TTLGetValues \/ TTLDNSGetValues
    \/ BuildTTLQueries \/ RawStart \/ RawIterate

\* the raw sender's loop keeps running: every call it makes returns (sr1 has
\* a timeout), so a pass that can be made is made
SpecRaw == InitTransport /\ [][NextRaw]_vars /\ WF_vars(RawIterate)

NextSender ==
    \/ BuildTTLQueries \/ BuildValueQueries
    \/ RawStart \/ RawIterate
    \/ SenderStart \/ SenderIterate
    \/ ProcessStart \/ ProcessIterate

SpecSender == InitTransport /\ [][NextSender]_vars

\* the attempts of the log, in the order they were made
IsAttempt(e) == e.ev = "attempt"
Attempts == SelectSeq(net.log, IsAttempt)

\* C26: build_ttl_queries(P) returns one query per element of
\* get_ttl_values(P), the i-th named query<i>.example.com (i from 1) and
\* carrying the i-th value, and send_ttl_sequence makes its attempts in list
\* order: the j-th attempt is for query j, with that query's value, and each
\* pass of the loop makes the attempt for the next query of the list only.
C26_OrderPreserved ==
    /\ (net.fn \in {"build_ttl_queries", "send_ttl_sequence"} /\ net.at # "raised"
        /\ values # None /\ values.ok) =>
          /\ Len(net.queue) = Len(values.val)
          /\ \A i \in DOMAIN net.queue :
                /\ net.queue[i].value = values.val[i]
                /\ net.queue[i].name
                      = <<"q","u","e","r","y">> \o IntToStr(i)
                           \o <<".","e","x","a","m","p","l","e",".","c","o","m">>
    /\ net.fn = "send_ttl_sequence" =>
          /\ Len(Attempts) = net.i
          /\ net.i <= Len(net.queue)
          /\ \A j \in DOMAIN Attempts :
                /\ Attempts[j].q = j
                /\ Attempts[j].value = net.queue[j].value

\* offset 10, start marker 255: b"H\xff" became query1..query3 with the TTLs
\* 255, 82, 9, and all three were sent in that order
C26_Witness ==
    /\ chan.name = "ttl" /\ chan.offset = 10 /\ data = <<72, 255>>
    /\ values = Ok(<<255, 82, 9>>)
    /\ net.fn = "send_ttl_sequence" /\ net.at = "returned"
    /\ Len(net.queue) = 3
    /\ \A j \in 1..3 : Attempts[j].out = "sent" /\ Attempts[j].value = values.val[j]

\* the raw sender has returned from send_ttl_sequence
RawReturned == net.fn = "send_ttl_sequence" /\ net.at = "returned"

\* C27: send_ttl_sequence always returns, and what it returns is a list
\* with exactly one entry per query of queries_with_ttl, entry i for query
\* i: the response if one came back, None if the send raised an exception or
\* nothing came back; every query after a failed one has still been attempted.
C27_RawAlwaysCompletes ==
    /\ [](RawReturned =>
            /\ net.result.ok
            /\ Len(net.result.val) = Len(net.queue)
            /\ Len(Attempts) = Len(net.queue)
            /\ \A i \in DOMAIN net.queue :
                  net.result.val[i] = IF Attempts[i].out = "reply"
                                      THEN Ok(net.queue[i].name) ELSE None)
    /\ ((net.fn = "send_ttl_sequence") ~> RawReturned)

\* three queries, waiting for responses: the first send raised, the second
\* was answered, the third timed out
C27_Witness ==
    /\ RawReturned /\ net.wait /\ Len(net.queue) = 3
    /\ Attempts[1].out = "RuntimeError" /\ Attempts[2].out = "reply"
    /\ Attempts[3].out = "timeout"
    /\ net.result = Ok(<<None, Ok(net.queue[2].name), None>>)

\* the attempt e put a packet on the wire
Transmitted(e) == e.ev = "attempt" /\ e.out \in {"sent", "reply", "timeout"}

\* C28: the raw sender transmits no packet with an IP TTL outside 1..255:
\* for such a query the attempt ends in build_dns_packet's ValueError, its
\* slot in the result is None, and the later queries are attempted all the
\* same.
C28_TTLRangeEnforced ==
    net.fn = "send_ttl_sequence" =>
        /\ \A k \in DOMAIN net.log :
              /\ Transmitted(net.log[k]) => net.log[k].value \in 1..255
              /\ (IsAttempt(net.log[k]) /\ net.log[k].value \notin 1..255) =>
                    /\ net.log[k].out = "ValueError"
                    /\ net.responses[net.log[k].q] = None
        /\ net.at = "returned" => Len(Attempts) = Len(net.queue)

\* markers 0 and 300 around b"H": the TTLs 0, 72, 300; only query 2 was sent
C28_Witness ==
    /\ RawReturned /\ ~net.wait
    /\ Len(net.queue) = 3
    /\ net.queue[1].value = 0 /\ net.queue[2].value = 72 /\ net.queue[3].value = 300
    /\ Attempts[1].out = "ValueError" /\ Attempts[2].out = "sent"
    /\ Attempts[3].out = "ValueError"
    /\ net.result = Ok(<<None, None, None>>)

\* a sender loop that paces its queries: delay > 0 and, for process_queries,
\* one of the modes print, send, both
PacedCall ==
    /\ net.fn \in {"send_ttl_sequence", "send_ttl_queries", "process_queries"}
    /\ net.delay > 0
    /\ net.fn = "process_queries" => net.mode \in {"print", "send", "both"}

\* C29: with delay > 0, in send_ttl_sequence, send_ttl_queries and
\* process_queries (modes print, send, both) the log is query 1, sleep,
\* query 2, sleep, ..., query n: each sleep comes after query i and before
\* query i+1, none comes after the last query, so n processed queries make
\* exactly n-1 sleeps.
C29_Pacing ==
    PacedCall =>
        /\ \A k \in DOMAIN net.log :
              IF k % 2 = 1
              THEN net.log[k].ev = "attempt" /\ net.log[k].q = (k + 1) \div 2
              ELSE /\ net.log[k].ev = "sleep" /\ net.log[k].q = k \div 2
                   /\ net.log[k].q < Len(net.queue)
        /\ (net.at = "returned" /\ Len(Attempts) >= 1) =>
              /\ net.log[Len(net.log)].ev = "attempt"
              /\ Len(net.log) - Len(Attempts) = Len(Attempts) - 1

\* process_queries in mode both with a delay: the two queries of b"H" on the
\* default QType channel, one sleep between them
C29_Witness ==
    /\ net.fn = "process_queries" /\ net.mode = "both" /\ net.delay > 0
    /\ net.at = "returned" /\ Len(net.queue) = 2
    /\ Len(net.log) = 3
    /\ net.log[1].ev = "attempt" /\ net.log[2].ev = "sleep" /\ net.log[3].ev = "attempt"

\* the queries are Scapy packets and the process runs as root
SenderCanSend == net.root /\ net.queue # <<>> /\ net.queue[1].packet

\* an attempt of the log ended in PermissionError
Refused == \E k \in DOMAIN net.log : net.log[k].out = "PermissionError"

\* C30: send_ttl_queries without root, or with queries that are not Scapy
\* packets, sends nothing and returns []; a PermissionError at query i ends
\* the call with the responses of the queries before i; any other exception
\* puts None into that query's slot and the loop goes on, so a call without
\* PermissionError returns one entry per query.
C30_SenderFailureModes ==
    net.fn = "send_ttl_queries" =>
        /\ ~SenderCanSend =>
              net.at = "returned" /\ net.result = Ok(<<>>) /\ net.log = <<>>
        /\ \A k \in DOMAIN net.log :
              net.log[k].out = "PermissionError" =>
                 /\ k = Len(net.log) /\ net.at = "returned"
                 /\ net.result = Ok(net.responses)
                 /\ Len(net.result.val) = net.log[k].q - 1
        /\ \A j \in DOMAIN net.responses :
              net.responses[j] = IF Attempts[j].out = "reply"
                                 THEN Ok(net.queue[j].name) ELSE None
        /\ (net.at = "returned" /\ SenderCanSend /\ ~Refused) =>
              /\ net.result = Ok(net.responses)
              /\ Len(net.result.val) = Len(net.queue)

\* three queries, waiting for responses: the first was answered, the second
\* was refused, the third was never tried
C30_Witness ==
    /\ net.fn = "send_ttl_queries" /\ net.at = "returned" /\ net.wait
    /\ Len(net.queue) = 3 /\ Len(Attempts) = 2
    /\ Attempts[1].out = "reply" /\ Attempts[2].out = "PermissionError"
    /\ net.result = Ok(<<Ok(net.queue[1].name)>>)

====
